---- MODULE Spec2Model ----
(***************************************************************************)
(* Model of the HEVI dynamical core of src/atm/HighSpeedDynamics.cpp.      *)
(*                                                                         *)
(* Floating-point values are modelled as exact rationals <<n, d>> (d > 0,  *)
(* lowest terms); <<0, 0>> stands for a non-finite result (x / 0).         *)
(* The grid is one patch of NElementsA x NElementsB spectral elements of   *)
(* order m_nHorizontalOrder with a halo ring, nRElements levels.           *)
(***************************************************************************)
EXTENDS Integers, Sequences, FiniteSets, TLC

-----------------------------------------------------------------------------
(* Exact arithmetic standing for `double` *)

RECURSIVE GCD(_, _)
GCD(a, b) == IF b = 0 THEN a ELSE GCD(b, a % b)

Abs(x) == IF x < 0 THEN -x ELSE x

NaN == <<0, 0>>

IsFinite(x) == x[2] # 0

\* the rational n/d in lowest terms with a positive denominator; n/0 is non-finite
Rat(n, d) ==
    IF d = 0 THEN NaN
    ELSE LET g == GCD(Abs(n), Abs(d))
             s == IF d < 0 THEN -1 ELSE 1
         IN  <<(s * n) \div g, (s * d) \div g>>

Zero == <<0, 1>>
One == <<1, 1>>

\* the products a * b that stay in the range of the model's numbers; a result
\* whose numerator or denominator leaves that range is non-finite, as a double
\* that leaves its range is
MaxMagnitude == 2^30 - 1
Fits(a, b) == a = 0 \/ b = 0 \/ Abs(a) <= MaxMagnitude \div Abs(b)

\* the sum over the least common denominator
RAdd(x, y) ==
    IF IsFinite(x) /\ IsFinite(y)
    THEN LET g == GCD(x[2], y[2])
             yd == y[2] \div g
             xd == x[2] \div g
         IN  IF Fits(x[1], yd) /\ Fits(y[1], xd) /\ Fits(x[2], yd)
             THEN Rat(x[1] * yd + y[1] * xd, x[2] * yd)
             ELSE NaN
    ELSE NaN

RNeg(x) == IF IsFinite(x) THEN <<-x[1], x[2]>> ELSE NaN

RSub(x, y) == RAdd(x, RNeg(y))

\* the product, with the common factors cancelled before multiplying
RMul(x, y) ==
    IF IsFinite(x) /\ IsFinite(y)
    THEN LET g == GCD(Abs(x[1]), y[2])
             h == GCD(Abs(y[1]), x[2])
             xn == x[1] \div g
             yn == y[1] \div h
             xd == x[2] \div h
             yd == y[2] \div g
         IN  IF Fits(xn, yn) /\ Fits(xd, yd)
             THEN Rat(xn * yn, xd * yd)
             ELSE NaN
    ELSE NaN

RDiv(x, y) ==
    IF IsFinite(x) /\ IsFinite(y)
    THEN (IF y[1] = 0 THEN NaN
          ELSE RMul(x, IF y[1] < 0 THEN <<-y[2], -y[1]>> ELSE <<y[2], y[1]>>))
    ELSE NaN

\* comparisons with a non-finite operand are false, as for a NaN
RGtZero(x) == IsFinite(x) /\ x[1] > 0
RGeZero(x) == IsFinite(x) /\ x[1] >= 0
RLtZero(x) == IsFinite(x) /\ x[1] < 0
RIsZero(x) == IsFinite(x) /\ x[1] = 0

RAbs(x) == IF IsFinite(x) THEN <<Abs(x[1]), x[2]>> ELSE NaN
RGe(x, y) == RGeZero(RSub(x, y))

\* an array filled once: every entry is computed when the array is built
Stored(f) == f @@ <<>>

\* sum of f[x] over the finite set S

RECURSIVE RSum(_, _)
RSum(f, S) ==
    IF S = {} THEN Zero
    ELSE LET x == CHOOSE y \in S : TRUE
         IN  RAdd(f[x], RSum(f, S \ {x}))

-----------------------------------------------------------------------------
(* Grid and equation set *)

m_nHorizontalOrder == 2
nRElements == 2
NElementsA == 2
NElementsB == 1
HaloElements == 1
nComponents == 5
nTracerCount == 1

UIx == 0
VIx == 1
PIx == 2
WIx == 3
RIx == 4

Order == 0 .. (m_nHorizontalOrder - 1)
ElemsA == 0 .. (NElementsA - 1)
ElemsB == 0 .. (NElementsB - 1)
SizeA == NElementsA * m_nHorizontalOrder + 2 * HaloElements
SizeB == NElementsB * m_nHorizontalOrder + 2 * HaloElements
IxA == 0 .. (SizeA - 1)
IxB == 0 .. (SizeB - 1)
Components == 0 .. (nComponents - 1)
Tracers == 0 .. (nTracerCount - 1)
LevelsNode == 0 .. (nRElements - 1)
LevelsREdge == 0 .. nRElements

NodePts == IxA \X IxB \X LevelsNode
REdgePts == IxA \X IxB \X LevelsREdge

\* first index of element a (resp. b) in the patch arrays
ElementStart(a) == a * m_nHorizontalOrder + HaloElements

\* the horizontal indices inside some element (not in the halo)
InteriorA == {ElementStart(a) + i : a \in ElemsA, i \in Order}
InteriorB == {ElementStart(b) + j : b \in ElemsB, j \in Order}

\* location of each prognostic component: W on interfaces, the others on nodes
VarLocation(c) == IF c = WIx THEN "REdge" ELSE "Node"

PtsOf(c) == IF VarLocation(c) = "REdge" THEN REdgePts ELSE NodePts

\* the components kept on nodes: their interface arrays hold auxiliary values
NodeComponents == {c \in Components : VarLocation(c) = "Node"}

\* derivative of basis function s at node i (order 2: linear basis on [0,1])
dDxBasis1D(s, i) == IF s = 0 THEN Rat(-1, 1) ELSE One

\* stiffness matrix Dx(i,s) * w_s / w_i (order 2: equal weights)
dStiffness1D(i, s) == IF i = 0 THEN Rat(-1, 1) ELSE One

\* flat Cartesian metric with unit element spacing
dElementDeltaA == One
dElementDeltaB == One
dJacobian(pt) == One
dJacobian2D(iA, iB) == One
dContraMetricA(iA, iB) == <<One, Zero>>
dContraMetricB(iA, iB) == <<Zero, One>>

\* element and local node of an interior horizontal index
ElemOf(ix) == (ix - HaloElements) \div m_nHorizontalOrder
LocalOf(ix) == (ix - HaloElements) % m_nHorizontalOrder
IsInterior(pt) == pt[1] \in InteriorA /\ pt[2] \in InteriorB

-----------------------------------------------------------------------------
(* State *)

VARIABLES
    m_nHyperviscosityOrder,  \* construction parameters
    m_dNuScalar,
    m_dNuDiv,
    m_dNuVort,
    fFilterTracers,          \* build flag POSITIVE_DEFINITE_FILTER_TRACERS
    dElementAreaNode,        \* grid: element area at nodes
    data,                    \* data[ix]: the state and tracer arrays of dataset ix;
                             \* .state[c] is component c at its own location,
                             \* .stateREdge[c] the interface array of a node component
    pc,                      \* position inside the running operation
    args,                    \* arguments of the running operation
    exception,               \* message of the exception thrown, or "none"
    calls,                   \* operations invoked so far by the running operation
    entry,                   \* data at the entry of the running operation
    fPrognosticContravariantMomenta,  \* build flag PROGNOSTIC_CONTRAVARIANT_MOMENTA
    fGridIsGLL,              \* the model's grid is a GridGLL
    nEqSet,                  \* EquationSet::GetType()
    fCartXZ,                 \* GridGLL::GetIsCartesianXZ()
    dataRayleighStrengthNode,   \* grid: Rayleigh strength on nodes
    dataRayleighStrengthREdge,  \* grid: Rayleigh strength on interfaces
    m_dA,                    \* tridiagonal system of each column of an element:
    m_dB,                    \* sub-diagonal, diagonal, super-diagonal and
    m_dC,                    \* right-hand side / solution, or "unallocated"
    m_dD,
    m_nInfo,                 \* status of the solve of each column
    dataPressure,            \* grid: pressure on nodes
    elem,                    \* element <<a, b>> of the running element loop
    auxiliary,               \* the auxiliary buffers of the stages (m_dSDotUaREdge,
                             \* ..., m_dDpDTheta), or "unallocated"
    nActivePatches,          \* GridGLL::GetActivePatchCount() on this process
    m_pActiveNcOutput,       \* per rank: the open NetCDF file (index in files), 0 = NULL
    m_vecComponentVar,       \* per rank: the file variables of the state components
    m_vecTracersVar,         \* per rank: the file variables of the tracers
    m_vecRecvBuffer,         \* per rank: the receive buffer is initialized
    m_fIsFileOpen,           \* per rank: OutputManager::IsFileOpen()
    m_ixOutputTime,          \* per rank: outputs written to the current file
    script,                  \* the output operations every rank calls, in order
    ixCall,                  \* per rank: index in script of the current call
    rpc,                     \* per rank: position inside the current call
    outcome,                 \* per rank: how each finished call ended
    atEntry,                 \* per rank: the manager's fields at the entry of the call
    barrier,                 \* per rank: MPI_Barrier calls entered so far
    inflight,                \* messages sent to the root and not yet received
    status,                  \* ConsolidationStatus of the root: receives outstanding
    files                    \* the NetCDF files created so far

vars == <<m_nHyperviscosityOrder, m_dNuScalar, m_dNuDiv, m_dNuVort,
          fFilterTracers, dElementAreaNode, data, pc, args, exception,
          calls, entry, fPrognosticContravariantMomenta, fGridIsGLL, nEqSet,
          fCartXZ, dataRayleighStrengthNode, dataRayleighStrengthREdge,
          m_dA, m_dB, m_dC, m_dD, m_nInfo, dataPressure, elem, auxiliary,
          nActivePatches, m_pActiveNcOutput, m_vecComponentVar,
          m_vecTracersVar, m_vecRecvBuffer, m_fIsFileOpen, m_ixOutputTime,
          script, ixCall, rpc, outcome, atEntry, barrier, inflight, status,
          files>>

\* the output manager, its files and the messages of its ranks
output == <<m_pActiveNcOutput, m_vecComponentVar, m_vecTracersVar,
            m_vecRecvBuffer, m_fIsFileOpen, m_ixOutputTime, script, ixCall,
            rpc, outcome, atEntry, barrier, inflight, status, files>>

\* the scratch buffers of the implicit stage, the pressure and the loop position
scratch == <<m_dA, m_dB, m_dC, m_dD, m_nInfo, dataPressure, elem, auxiliary>>

\* what no operation after construction changes; the existing operations of
\* the post-subcycle composer and of the filter leave the scratch alone too
setup == <<m_nHyperviscosityOrder, m_dNuScalar, m_dNuDiv, m_dNuVort,
           fFilterTracers, dElementAreaNode, fPrognosticContravariantMomenta,
           fGridIsGLL, nEqSet, fCartXZ, dataRayleighStrengthNode,
           dataRayleighStrengthREdge, nActivePatches, output>>

config == <<setup, scratch>>

\* the processes of the run; rank 0 is the root
NRanks == 2
Ranks == 0 .. NRanks - 1

\* OutputManagerComposite after construction: no file, no variables, no
\* buffer, nothing sent; no output operation is called
OutputAtRest ==
    /\ m_pActiveNcOutput = [r \in Ranks |-> 0]
    /\ m_vecComponentVar = [r \in Ranks |-> <<>>]
    /\ m_vecTracersVar = [r \in Ranks |-> <<>>]
    /\ m_vecRecvBuffer = [r \in Ranks |-> FALSE]
    /\ m_fIsFileOpen = [r \in Ranks |-> FALSE]
    /\ m_ixOutputTime = [r \in Ranks |-> 0]
    /\ script = <<>>
    /\ ixCall = [r \in Ranks |-> 1]
    /\ rpc = [r \in Ranks |-> "idle"]
    /\ outcome = [r \in Ranks |-> <<>>]
    /\ atEntry = [r \in Ranks |-> <<>>]
    /\ barrier = [r \in Ranks |-> 0]
    /\ inflight = {}
    /\ status = {}
    /\ files = <<>>

-----------------------------------------------------------------------------
(* Grid collaborator: reference state, CopyData, ZeroData, ApplyDSS,      *)
(* ComputeCurlAndDiv                                                       *)

\* the reference state: rho = 1, rho theta = 3, at rest
dataRef ==
    [c \in Components |->
        [pt \in PtsOf(c) |->
            IF c = RIx THEN One ELSE IF c = PIx THEN Rat(3, 1) ELSE Zero]]

\* Grid::CopyData(ixSource, ixDest, kind): every value of one kind is copied
CopyData(d, ixSource, ixDest, kind) ==
    IF kind = "State"
    THEN [d EXCEPT ![ixDest].state = d[ixSource].state,
                   ![ixDest].stateREdge = d[ixSource].stateREdge]
    ELSE [d EXCEPT ![ixDest].tracers = d[ixSource].tracers]

\* Grid::ZeroData(ix, kind): every value of one kind is set to zero
ZeroData(d, ix, kind) ==
    IF kind = "State"
    THEN [d EXCEPT ![ix].state = [c \in Components |-> [pt \in PtsOf(c) |-> Zero]],
                   ![ix].stateREdge =
                        [c \in NodeComponents |-> [pt \in REdgePts |-> Zero]]]
    ELSE [d EXCEPT ![ix].tracers = [c \in Tracers |-> [pt \in NodePts |-> Zero]]]

Half == Rat(1, 2)

\* the last node of an element that has a right neighbour, or the first node of
\* an element that has a left neighbour, along one direction
IsLastShared(ix, n) ==
    /\ ix >= HaloElements
    /\ LocalOf(ix) = m_nHorizontalOrder - 1
    /\ ElemOf(ix) < n - 1
IsFirstShared(ix, n) ==
    /\ LocalOf(ix) = 0
    /\ ElemOf(ix) >= 1
    /\ ElemOf(ix) <= n - 1

\* duplicated values at the edge shared by two elements are replaced by their
\* average, along alpha and then along beta
DSSArray(arr) ==
    LET alongA == [pt \in DOMAIN arr |->
            IF IsLastShared(pt[1], NElementsA)
            THEN RMul(Half, RAdd(arr[pt], arr[<<pt[1] + 1, pt[2], pt[3]>>]))
            ELSE IF IsFirstShared(pt[1], NElementsA)
            THEN RMul(Half, RAdd(arr[<<pt[1] - 1, pt[2], pt[3]>>], arr[pt]))
            ELSE arr[pt]]
    IN  [pt \in DOMAIN arr |->
            IF IsLastShared(pt[2], NElementsB)
            THEN RMul(Half, RAdd(alongA[pt], alongA[<<pt[1], pt[2] + 1, pt[3]>>]))
            ELSE IF IsFirstShared(pt[2], NElementsB)
            THEN RMul(Half, RAdd(alongA[<<pt[1], pt[2] - 1, pt[3]>>], alongA[pt]))
            ELSE alongA[pt]]

\* Grid::ApplyDSS(ix, kind)
ApplyDSS(d, ix, kind) ==
    IF kind = "State"
    THEN [d EXCEPT ![ix].state = [c \in Components |-> DSSArray(d[ix].state[c])]]
    ELSE [d EXCEPT ![ix].tracers = [c \in Tracers |-> DSSArray(d[ix].tracers[c])]]

dInvElementDeltaA == RDiv(One, dElementDeltaA)
dInvElementDeltaB == RDiv(One, dElementDeltaB)

\* collocation derivative along alpha (resp. beta) of f at an interior point
DerivA(f, pt) ==
    LET EA == ElementStart(ElemOf(pt[1]))
    IN  RMul(RSum([s \in Order |->
                    RMul(f[<<EA + s, pt[2], pt[3]>>], dDxBasis1D(s, LocalOf(pt[1])))],
                  Order),
             dInvElementDeltaA)

DerivB(f, pt) ==
    LET EB == ElementStart(ElemOf(pt[2]))
    IN  RMul(RSum([s \in Order |->
                    RMul(f[<<pt[1], EB + s, pt[3]>>], dDxBasis1D(s, LocalOf(pt[2])))],
                  Order),
             dInvElementDeltaB)

\* GridPatch::ComputeCurlAndDiv(dataUa, dataUb, dataRho): vorticity and
\* divergence of the velocity (momentum / density) at the interior nodes
ComputeCurlAndDiv(dataUa, dataUb, dataRho) ==
    LET ua == Stored([pt \in NodePts |-> RDiv(dataUa[pt], dataRho[pt])])
        ub == Stored([pt \in NodePts |-> RDiv(dataUb[pt], dataRho[pt])])
    IN  [curl |-> Stored([pt \in NodePts |->
                    IF IsInterior(pt)
                    THEN RDiv(RSub(DerivA(ub, pt), DerivB(ua, pt)),
                              dJacobian2D(pt[1], pt[2]))
                    ELSE Zero]),
         div  |-> Stored([pt \in NodePts |->
                    IF IsInterior(pt)
                    THEN RDiv(RAdd(DerivA(ua, pt), DerivB(ub, pt)),
                              dJacobian2D(pt[1], pt[2]))
                    ELSE Zero])]

-----------------------------------------------------------------------------
(* Physical constants, vertical grid and the buffers Initialize allocates *)

\* ideal-gas pressure p0 * (Rd * rhotheta / p0)^gamma in units p0 = Rd = 1,
\* with the exponent gamma = 2 so that the arithmetic stays rational
Gamma == Rat(2, 1)
PressureFromRhoTheta(x) == RMul(x, x)

\* gravity phys.GetG()
GetG == One

\* flat terrain with levels of thickness 1, 2, 3, ...: interfaces at
\* z = k (k + 1) / 2, levels halfway between their interfaces
dataZi(iA, iB, k) == Rat(k * (k + 1), 2)
dataZn(iA, iB, k) == Rat((k + 1) * (k + 1), 2)
dDerivRNode(iA, iB, k) == <<Zero, Zero>>
dDerivRREdge(iA, iB, k) == <<Zero, Zero>>
dJacobianREdge(iA, iB, k) == One
dCovMetric2DA(iA, iB) == <<One, Zero>>
dCovMetric2DB(iA, iB) == <<Zero, One>>
dCoriolisF(iA, iB) == One

\* Grid::ComputePressure(ix): the pressure of dataset ix on every node
ComputePressure(d, ix) ==
    [pt \in NodePts |-> PressureFromRhoTheta(d[ix].state[PIx][pt])]

\* DataArray3D::Allocate(p, p, nRElements + 1): a zero-filled buffer
ColumnPts == Order \X Order \X LevelsREdge
Columns == Order \X Order
Allocated == [q \in ColumnPts |-> Zero]

\* DataArray3D::Allocate(p, p, nRElements)
NodeColumnPts == Order \X Order \X LevelsNode
AllocatedNode == [q \in NodeColumnPts |-> Zero]

\* the auxiliary buffers as Initialize leaves them
AllocatedAuxiliary ==
    [m_dSDotUaREdge |-> Allocated, m_dSDotUbREdge |-> Allocated,
     m_dAlphaVerticalMomentumFluxREdge |-> Allocated,
     m_dBetaVerticalMomentumFluxREdge |-> Allocated,
     m_d2DConUa |-> AllocatedNode, m_d2DConUb |-> AllocatedNode,
     m_d2DCovUa |-> AllocatedNode, m_d2DCovUb |-> AllocatedNode,
     m_dAlphaMassFlux |-> AllocatedNode, m_dBetaMassFlux |-> AllocatedNode,
     m_dAlphaPressureFlux |-> AllocatedNode, m_dBetaPressureFlux |-> AllocatedNode,
     m_dK2 |-> AllocatedNode, m_dSDotWNode |-> AllocatedNode,
     m_dDpDTheta |-> AllocatedNode]

NoElement == <<-1, -1>>

-----------------------------------------------------------------------------
(* LAPACK dgtsv for one right-hand side: Gaussian elimination with partial   *)
(* pivoting, in place on the three diagonals and the right-hand side         *)

\* order of the system of one column
nREdges == nRElements + 1

\* elimination of the sub-diagonal entry of row i + 1 (rows counted from 0);
\* the returned status counts rows from 1
DgtsvEliminate(s, i) ==
    LET last == (i = nREdges - 2)
    IN  IF RGe(RAbs(s.d[i]), RAbs(s.dl[i]))
        THEN IF RIsZero(s.d[i])
             THEN [s EXCEPT !.info = i + 1]
             ELSE LET fact == RDiv(s.dl[i], s.d[i])
                  IN  [s EXCEPT
                        !.d[i + 1] = RSub(@, RMul(fact, s.du[i])),
                        !.b[i + 1] = RSub(@, RMul(fact, s.b[i])),
                        !.dl[i] = IF last THEN @ ELSE Zero]
        ELSE LET fact == RDiv(s.d[i], s.dl[i])
                 newdl == IF last THEN s.dl[i] ELSE s.du[i + 1]
             IN  [s EXCEPT
                    !.d[i] = s.dl[i],
                    !.d[i + 1] = RSub(s.du[i], RMul(fact, s.d[i + 1])),
                    !.dl[i] = newdl,
                    !.du[i + 1] = IF last THEN @ ELSE RNeg(RMul(fact, newdl)),
                    !.du[i] = s.d[i + 1],
                    !.b[i] = s.b[i + 1],
                    !.b[i + 1] = RSub(s.b[i], RMul(fact, s.b[i + 1]))]

RECURSIVE DgtsvForward(_, _)
DgtsvForward(s, i) ==
    IF s.info # 0 \/ i > nREdges - 2 THEN s
    ELSE DgtsvForward(DgtsvEliminate(s, i), i + 1)

RECURSIVE DgtsvBack(_, _)
DgtsvBack(s, i) ==
    IF i < 0 THEN s
    ELSE LET above == IF i + 1 <= nREdges - 1
                      THEN RMul(s.du[i], s.b[i + 1]) ELSE Zero
             above2 == IF i + 2 <= nREdges - 1
                       THEN RMul(s.dl[i], s.b[i + 2]) ELSE Zero
         IN  DgtsvBack([s EXCEPT !.b[i] =
                            RDiv(RSub(RSub(@, above), above2), s.d[i])],
                       i - 1)

\* the four arrays and the status after the call
Dgtsv(dl, d, du, b) ==
    LET f == DgtsvForward([dl |-> dl, d |-> d, du |-> du, b |-> b, info |-> 0], 0)
    IN  IF f.info # 0 THEN f
        ELSE IF RIsZero(f.d[nREdges - 1]) THEN [f EXCEPT !.info = nREdges]
        ELSE DgtsvBack(f, nREdges - 1)

\* the object after a successful Initialize on a supported build and grid,
\* with no Rayleigh layer
StandardSetup ==
    /\ nActivePatches = 1
    /\ fPrognosticContravariantMomenta = TRUE
    /\ fGridIsGLL = TRUE
    /\ nEqSet = "PrimitiveNonhydrostaticEquations"
    /\ fCartXZ = FALSE
    /\ dataRayleighStrengthNode = [pt \in NodePts |-> Zero]
    /\ dataRayleighStrengthREdge = [pt \in REdgePts |-> Zero]
    /\ m_dA = Allocated
    /\ m_dB = Allocated
    /\ m_dC = Allocated
    /\ m_dD = Allocated
    /\ m_nInfo = [q \in Columns |-> 0]
    /\ auxiliary = AllocatedAuxiliary
    /\ dataPressure = [pt \in NodePts |-> Zero]
    /\ elem = NoElement

-----------------------------------------------------------------------------
(* HighSpeedDynamics::FilterNegativeTracers *)

\* the nodes of element (a,b) at level k
ElementPts(a, b, k) ==
    {<<ElementStart(a) + i, ElementStart(b) + j, k>> : i \in Order, j \in Order}

\* dTotalMass: the area-weighted sum of a tracer over one element and level
TotalMass(tr, area, a, b, k) ==
    RSum([pt \in ElementPts(a, b, k) |-> RMul(tr[pt], area[pt])],
         ElementPts(a, b, k))

\* dNonNegativeMass: the same sum over the nodes whose value is >= 0
NonNegativeMass(tr, area, a, b, k) ==
    LET S == {pt \in ElementPts(a, b, k) : RGeZero(tr[pt])}
    IN  RSum([pt \in S |-> RMul(tr[pt], area[pt])], S)

\* the scaling ratio dR of one element and level
ScalingRatio(tr, area, a, b, k) ==
    RDiv(TotalMass(tr, area, a, b, k), NonNegativeMass(tr, area, a, b, k))

\* mutant: negative values are clipped and the others are left unscaled
FilterPoint_ClipOnly(x, dR) == IF RGtZero(x) THEN x ELSE Zero

\* the value the filter leaves at a node, given the ratio of its element
FilterPoint(x, dR) == IF RGtZero(x) THEN RMul(x, dR) ELSE Zero

\* one tracer array after the sweep over all elements and levels
FilterArray(tr, area) ==
    LET dR == [e \in ElemsA \X ElemsB \X LevelsNode |->
                ScalingRatio(tr, area, e[1], e[2], e[3])]
    IN  [pt \in NodePts |->
            IF IsInterior(pt)
            THEN FilterPoint(tr[pt], dR[<<ElemOf(pt[1]), ElemOf(pt[2]), pt[3]>>])
            ELSE tr[pt]]

\* the whole call: a no-op unless the filter is compiled in
FilterNegativeTracers(d, compiled, area, iDataUpdate) ==
    IF compiled
    THEN [d EXCEPT ![iDataUpdate].tracers =
            [c \in Tracers |-> FilterArray(d[iDataUpdate].tracers[c], area)]]
    ELSE d

-----------------------------------------------------------------------------
(* HighSpeedDynamics::ApplyScalarHyperdiffusion *)

dReferenceLength == One

\* pow(x, 3.2), known exactly only at 0 and 1
Pow32(x) == IF x = One THEN One ELSE IF x = Zero THEN Zero ELSE NaN

\* the factor applied to a coefficient when it is scaled locally
LocalNuScale(fScaleNuLocally) ==
    IF fScaleNuLocally /\ ~RIsZero(dReferenceLength)
    THEN Pow32(RDiv(dElementDeltaA, dReferenceLength))
    ELSE One

\* mutant: the buffer value is stored in place of its gradient
JGradientA_Value(buf, pt) == RMul(dJacobian(pt), buf[pt])

\* m_dJGradientA and m_dJGradientB at an interior point of the buffer state
JGradientA(buf, pt) ==
    RMul(dJacobian(pt),
         RAdd(RMul(dContraMetricA(pt[1], pt[2])[1], DerivA(buf, pt)),
              RMul(dContraMetricA(pt[1], pt[2])[2], DerivB(buf, pt))))

JGradientB(buf, pt) ==
    RMul(dJacobian(pt),
         RAdd(RMul(dContraMetricB(pt[1], pt[2])[1], DerivA(buf, pt)),
              RMul(dContraMetricB(pt[1], pt[2])[2], DerivB(buf, pt))))

\* dUpdateA + dUpdateB at an interior point: the weak divergence of the
\* Jacobian-weighted gradient buffers
ScalarLaplacian(jgA, jgB, pt) ==
    LET EA == ElementStart(ElemOf(pt[1]))
        EB == ElementStart(ElemOf(pt[2]))
        dUpdateA ==
            RMul(RSum([s \in Order |->
                        RMul(jgA[<<EA + s, pt[2], pt[3]>>],
                             dStiffness1D(LocalOf(pt[1]), s))], Order),
                 dInvElementDeltaA)
        dUpdateB ==
            RMul(RSum([s \in Order |->
                        RMul(jgB[<<pt[1], EB + s, pt[3]>>],
                             dStiffness1D(LocalOf(pt[2]), s))], Order),
                 dInvElementDeltaB)
    IN  RAdd(dUpdateA, dUpdateB)

\* one field: update -= dt / J * nu * Laplacian(initial [- reference])
DiffuseArray(init, upd, ref, dDeltaT, dLocalNu, fRemoveRefState) ==
    LET inner == {pt \in DOMAIN init : IsInterior(pt)}
        m_dBufferState == Stored([pt \in inner |->
                IF fRemoveRefState THEN RSub(init[pt], ref[pt]) ELSE init[pt]])
        m_dJGradientA ==
            Stored([pt \in inner |-> JGradientA(m_dBufferState, pt)])
        m_dJGradientB ==
            Stored([pt \in inner |-> JGradientB(m_dBufferState, pt)])
    IN  [pt \in DOMAIN upd |->
            IF IsInterior(pt)
            THEN RSub(upd[pt],
                      RMul(RMul(dDeltaT, RDiv(One, dJacobian(pt))),
                           RMul(dLocalNu,
                                ScalarLaplacian(m_dJGradientA, m_dJGradientB,
                                                pt))))
            ELSE upd[pt]]

\* mutant: "all" starts at component 0
ScalarComponents_FromZero(iComponent) ==
    IF iComponent = -1 THEN Components ELSE {iComponent}

\* the state components and the tracers one call diffuses
ScalarComponents(iComponent) ==
    IF iComponent = -1 THEN 2 .. (nComponents - 1) ELSE {iComponent}

ScalarTracers(iComponent) == IF iComponent = -1 THEN Tracers ELSE {}

\* the data after a call that raises no exception
ApplyScalarHyperdiffusion(d, iDataInitial, iDataUpdate, dDeltaT, dNu, fScaleNuLocally, iComponent, fRemoveRefState) ==
    LET dLocalNu == RMul(dNu, LocalNuScale(fScaleNuLocally))
        \* pDataRef is never set for tracers: what it reads is not a value
        unsetRef == [pt \in NodePts |-> NaN]
    IN  [d EXCEPT
            ![iDataUpdate].state =
                [c \in Components |->
                    IF c \in ScalarComponents(iComponent)
                    THEN DiffuseArray(d[iDataInitial].state[c],
                                      d[iDataUpdate].state[c], dataRef[c],
                                      dDeltaT, dLocalNu, fRemoveRefState)
                    ELSE d[iDataUpdate].state[c]],
            ![iDataUpdate].tracers =
                [c \in Tracers |->
                    IF c \in ScalarTracers(iComponent)
                    THEN DiffuseArray(d[iDataInitial].tracers[c],
                                      d[iDataUpdate].tracers[c], unsetRef,
                                      dDeltaT, dLocalNu, fRemoveRefState)
                    ELSE d[iDataUpdate].tracers[c]]]

-----------------------------------------------------------------------------
(* HighSpeedDynamics::ApplyVectorHyperdiffusion *)

DATA_INDEX_REFERENCE == -1

EquationSetType == "PrimitiveNonhydrostaticEquations"

\* density (or height) index of the equation set
DensityIx == IF EquationSetType = "ShallowWaterEquations" THEN 2 ELSE RIx

\* - sum_s Stiffness(i,s) * f(s) / delta along alpha (resp. beta)
WeakDerivA(f, pt) ==
    LET EA == ElementStart(ElemOf(pt[1]))
    IN  RMul(RNeg(RSum([s \in Order |->
                        RMul(dStiffness1D(LocalOf(pt[1]), s),
                             f[<<EA + s, pt[2], pt[3]>>])], Order)),
             dInvElementDeltaA)

WeakDerivB(f, pt) ==
    LET EB == ElementStart(ElemOf(pt[2]))
    IN  RMul(RNeg(RSum([s \in Order |->
                        RMul(dStiffness1D(LocalOf(pt[2]), s),
                             f[<<pt[1], EB + s, pt[3]>>])], Order)),
             dInvElementDeltaB)

\* <<dUpdateConUa, dUpdateConUb>> at an interior node, before the density factor
VectorUpdate(cd, dLocalNuDiv, dLocalNuVort, pt) ==
    LET dDaDiv == WeakDerivA(cd.div, pt)
        dDbDiv == WeakDerivB(cd.div, pt)
        dDaCurl == WeakDerivA(cd.curl, pt)
        dDbCurl == WeakDerivB(cd.curl, pt)
        gA == dContraMetricA(pt[1], pt[2])
        gB == dContraMetricB(pt[1], pt[2])
        J2D == dJacobian2D(pt[1], pt[2])
        dUpdateCovUa ==
            RSub(RMul(dLocalNuDiv, dDaDiv),
                 RMul(RMul(dLocalNuVort, J2D),
                      RAdd(RMul(gB[1], dDaCurl), RMul(gB[2], dDbCurl))))
        dUpdateCovUb ==
            RAdd(RMul(dLocalNuDiv, dDbDiv),
                 RMul(RMul(dLocalNuVort, J2D),
                      RAdd(RMul(gA[1], dDaCurl), RMul(gA[2], dDbCurl))))
    IN  <<RAdd(RMul(gA[1], dUpdateCovUa), RMul(gA[2], dUpdateCovUb)),
          RAdd(RMul(gB[1], dUpdateCovUa), RMul(gB[2], dUpdateCovUb))>>

ApplyVectorHyperdiffusion(d, iDataInitialArg, iDataWorking, iDataUpdate, dDeltaT, dNuDiv, dNuVort, fScaleNuLocally) ==
    LET fApplyToRefState == (iDataInitialArg = DATA_INDEX_REFERENCE)
        iDataInitial == IF fApplyToRefState THEN 0 ELSE iDataInitialArg
        dataUa == IF fApplyToRefState THEN dataRef[UIx]
                  ELSE d[iDataWorking].state[UIx]
        dataUb == IF fApplyToRefState THEN dataRef[VIx]
                  ELSE d[iDataWorking].state[VIx]
        dataRho == IF fApplyToRefState THEN dataRef[DensityIx]
                   ELSE d[iDataInitial].state[DensityIx]
        cd == ComputeCurlAndDiv(dataUa, dataUb, dataRho)
        dLocalNuDiv == RMul(dNuDiv, LocalNuScale(fScaleNuLocally))
        dLocalNuVort == RMul(dNuVort, LocalNuScale(fScaleNuLocally))
        rho == d[iDataInitial].state[DensityIx]
        upd == Stored([pt \in {q \in NodePts : IsInterior(q)} |->
                    VectorUpdate(cd, dLocalNuDiv, dLocalNuVort, pt)])
    IN  [d EXCEPT
            ![iDataUpdate].state =
                [c \in Components |->
                    IF c = UIx
                    THEN [pt \in NodePts |->
                            IF IsInterior(pt)
                            THEN RSub(d[iDataUpdate].state[c][pt],
                                      RMul(dDeltaT, RMul(upd[pt][1], rho[pt])))
                            ELSE d[iDataUpdate].state[c][pt]]
                    ELSE IF c = VIx
                    THEN [pt \in NodePts |->
                            IF IsInterior(pt)
                            THEN RSub(d[iDataUpdate].state[c][pt],
                                      RMul(dDeltaT, RMul(upd[pt][2], rho[pt])))
                            ELSE d[iDataUpdate].state[c][pt]]
                    ELSE d[iDataUpdate].state[c]]]

-----------------------------------------------------------------------------
(* Bounds and the initial contents of the datasets *)

NumData == 3
MaxOrder == 4

DataIx == 0 .. (NumData - 1)
NuValues == {Zero, Rat(2, 1)}
DeltaTValues == {Half}

\* density is positive; the other components and the tracers take both signs
StateValue(ix, c, pt) ==
    IF c = RIx
    THEN Rat(1 + ((ix + pt[1]) % 2), 1)
    ELSE Rat(((pt[1] + 2 * pt[2] + 1 + 3 * ix + c + pt[3]) % 5) - 2, 1)

TracerValue(ix, c, pt) ==
    Rat(((2 * pt[1] + 3 * pt[2] + ix + c) % 6) - 2, 2)

InitialData ==
    [ix \in DataIx |->
        [state |-> [c \in Components |->
                        [pt \in PtsOf(c) |-> StateValue(ix, c, pt)]],
         stateREdge |-> [c \in NodeComponents |->
                        [pt \in REdgePts |-> Rat(ix + c, 1)]],
         tracers |-> [c \in Tracers |->
                        [pt \in NodePts |-> TracerValue(ix, c, pt)]]]]

UniformArea == [pt \in NodePts |-> One]
VaryingArea == [pt \in NodePts |-> Rat(1 + ((pt[1] + pt[2]) % 2), 1)]

NoArgs == [iDataInitial |-> -1, iDataUpdate |-> -1, iDataWorking |-> -1,
           dDeltaT |-> Zero]

\* the state after construction and Initialize, before any stage is called,
\* in a build with POSITIVE_DEFINITE_FILTER_TRACERS
Init ==
    /\ m_nHyperviscosityOrder \in 0 .. MaxOrder
    /\ m_dNuScalar \in NuValues
    /\ m_dNuDiv \in NuValues
    /\ m_dNuVort \in NuValues
    /\ fFilterTracers = TRUE
    /\ dElementAreaNode = VaryingArea
    /\ StandardSetup
    /\ data = InitialData
    /\ pc = "idle"
    /\ args = NoArgs
    /\ exception = "none"
    /\ calls = <<>>
    /\ entry = data
    /\ OutputAtRest

-----------------------------------------------------------------------------
(* HighSpeedDynamics::StepAfterSubCycle, one action per statement *)

Goto(from, to) == pc = from /\ pc' = to

Called(d, call) == data' = d /\ calls' = Append(calls, call)

Throw(msg) == exception' = msg /\ pc' = "failed"

StepAfterSubCycle_Call ==
    /\ pc = "idle"
    /\ \E iI \in DataIx, iU \in DataIx, iW \in DataIx, dt \in DeltaTValues :
        args' = [iDataInitial |-> iI, iDataUpdate |-> iU,
                 iDataWorking |-> iW, dDeltaT |-> dt]
    /\ entry' = data
    /\ calls' = <<>>
    /\ pc' = "checkInitialWorking"
    /\ UNCHANGED <<config, data, exception>>

\* if (iDataInitial == iDataWorking) _EXCEPTIONT(...)
CheckInitialWorking_Throw ==
    /\ pc = "checkInitialWorking"
    /\ args.iDataInitial = args.iDataWorking
    /\ Throw("Invalid indices -- initial and working data must be distinct")
    /\ UNCHANGED <<config, data, args, calls, entry>>

CheckInitialWorking_Pass ==
    /\ Goto("checkInitialWorking", "checkUpdateWorking")
    /\ args.iDataInitial # args.iDataWorking
    /\ UNCHANGED <<config, data, args, exception, calls, entry>>

\* if (iDataUpdate == iDataWorking) _EXCEPTIONT(...)
CheckUpdateWorking_Throw ==
    /\ pc = "checkUpdateWorking"
    /\ args.iDataUpdate = args.iDataWorking
    /\ Throw("Invalid indices -- working and update data must be distinct")
    /\ UNCHANGED <<config, data, args, calls, entry>>

\* mutant: the second index check is missing
CheckUpdateWorking_Unchecked ==
    /\ Goto("checkUpdateWorking", "copyState")
    /\ UNCHANGED <<config, data, args, exception, calls, entry>>

CheckUpdateWorking_Pass ==
    /\ Goto("checkUpdateWorking", "copyState")
    /\ args.iDataUpdate # args.iDataWorking
    /\ UNCHANGED <<config, data, args, exception, calls, entry>>

\* pGrid->CopyData(iDataInitial, iDataUpdate, DataType_State)
CopyState ==
    /\ Goto("copyState", "copyTracers")
    /\ Called(CopyData(data, args.iDataInitial, args.iDataUpdate, "State"),
              <<"CopyData", args.iDataInitial, args.iDataUpdate, "State">>)
    /\ UNCHANGED <<config, args, exception, entry>>

\* pGrid->CopyData(iDataInitial, iDataUpdate, DataType_Tracers)
CopyTracers ==
    /\ Goto("copyTracers", "branch")
    /\ Called(CopyData(data, args.iDataInitial, args.iDataUpdate, "Tracers"),
              <<"CopyData", args.iDataInitial, args.iDataUpdate, "Tracers">>)
    /\ UNCHANGED <<config, args, exception, entry>>

NoHyperdiffusion ==
    RIsZero(m_dNuScalar) /\ RIsZero(m_dNuDiv) /\ RIsZero(m_dNuVort)

\* mutant: an unknown viscosity order is treated as no diffusion
BranchTarget_Lenient ==
    IF NoHyperdiffusion THEN "return"
    ELSE IF m_nHyperviscosityOrder = 0 THEN "return"
    ELSE IF m_nHyperviscosityOrder = 2 THEN "h2Scalar"
    ELSE IF m_nHyperviscosityOrder = 4 THEN "h4ZeroState"
    ELSE "return"

\* mutant: the test for all-zero coefficients is missing
BranchTarget_NoZeroTest ==
    IF m_nHyperviscosityOrder = 0 THEN "return"
    ELSE IF m_nHyperviscosityOrder = 2 THEN "h2Scalar"
    ELSE IF m_nHyperviscosityOrder = 4 THEN "h4ZeroState"
    ELSE "throw"

\* the if / else-if chain on the coefficients and the viscosity order
BranchTarget ==
    IF NoHyperdiffusion THEN "return"
    ELSE IF m_nHyperviscosityOrder = 0 THEN "return"
    ELSE IF m_nHyperviscosityOrder = 2 THEN "h2Scalar"
    ELSE IF m_nHyperviscosityOrder = 4 THEN "h4ZeroState"
    ELSE "throw"

Branch_Take ==
    /\ pc = "branch"
    /\ BranchTarget \notin {"throw"}
    /\ pc' = BranchTarget
    /\ UNCHANGED <<config, data, args, exception, calls, entry>>

Branch_Throw ==
    /\ pc = "branch"
    /\ BranchTarget = "throw"
    /\ Throw("Invalid viscosity order")
    /\ UNCHANGED <<config, data, args, calls, entry>>

\* one statement that invokes an operation on the datasets
Statement(from, to, d, call) ==
    /\ Goto(from, to)
    /\ Called(d, call)
    /\ UNCHANGED <<config, args, exception, entry>>

ScalarCall(iI, iU, dt, nu, fScale) ==
    <<"ApplyScalarHyperdiffusion", iI, iU, dt, nu, fScale>>

VectorCall(iI, iW, iU, dt, nuDiv, nuVort, fScale) ==
    <<"ApplyVectorHyperdiffusion", iI, iW, iU, dt, nuDiv, nuVort, fScale>>

(* m_nHyperviscosityOrder == 2 *)

H2_Scalar ==
    Statement("h2Scalar", "h2Vector",
        ApplyScalarHyperdiffusion(data, args.iDataInitial, args.iDataUpdate,
            args.dDeltaT, m_dNuScalar, FALSE, -1, FALSE),
        ScalarCall(args.iDataInitial, args.iDataUpdate, args.dDeltaT,
            m_dNuScalar, FALSE))

\* mutant: the vector diffusion is accumulated into the initial dataset
H2_Vector_InPlace ==
    Statement("h2Vector", "h2Filter",
        ApplyVectorHyperdiffusion(data, args.iDataInitial, args.iDataInitial,
            args.iDataInitial, RNeg(args.dDeltaT), m_dNuDiv, m_dNuVort, FALSE),
        VectorCall(args.iDataInitial, args.iDataInitial, args.iDataInitial,
            RNeg(args.dDeltaT), m_dNuDiv, m_dNuVort, FALSE))

\* mutant: the vector diffusion is called with +dt
H2_Vector_PlusDeltaT ==
    Statement("h2Vector", "h2Filter",
        ApplyVectorHyperdiffusion(data, args.iDataInitial, args.iDataInitial,
            args.iDataUpdate, args.dDeltaT, m_dNuDiv, m_dNuVort, FALSE),
        VectorCall(args.iDataInitial, args.iDataInitial, args.iDataUpdate,
            args.dDeltaT, m_dNuDiv, m_dNuVort, FALSE))

H2_Vector ==
    Statement("h2Vector", "h2Filter",
        ApplyVectorHyperdiffusion(data, args.iDataInitial, args.iDataInitial,
            args.iDataUpdate, RNeg(args.dDeltaT), m_dNuDiv, m_dNuVort, FALSE),
        VectorCall(args.iDataInitial, args.iDataInitial, args.iDataUpdate,
            RNeg(args.dDeltaT), m_dNuDiv, m_dNuVort, FALSE))

\* mutant: the filter is applied to the working dataset
H2_Filter_OnWorking ==
    Statement("h2Filter", "h2DSSState",
        FilterNegativeTracers(data, fFilterTracers, dElementAreaNode,
            args.iDataWorking),
        <<"FilterNegativeTracers", args.iDataWorking>>)

H2_Filter ==
    Statement("h2Filter", "h2DSSState",
        FilterNegativeTracers(data, fFilterTracers, dElementAreaNode,
            args.iDataUpdate),
        <<"FilterNegativeTracers", args.iDataUpdate>>)

H2_DSSState ==
    Statement("h2DSSState", "h2DSSTracers",
        ApplyDSS(data, args.iDataUpdate, "State"),
        <<"ApplyDSS", args.iDataUpdate, "State">>)

H2_DSSTracers ==
    Statement("h2DSSTracers", "return",
        ApplyDSS(data, args.iDataUpdate, "Tracers"),
        <<"ApplyDSS", args.iDataUpdate, "Tracers">>)

(* m_nHyperviscosityOrder == 4 *)

\* mutant: the update state is zeroed instead of the working state
H4_ZeroState_OnUpdate ==
    Statement("h4ZeroState", "h4ZeroTracers",
        ZeroData(data, args.iDataUpdate, "State"),
        <<"ZeroData", args.iDataUpdate, "State">>)

H4_ZeroState ==
    Statement("h4ZeroState", "h4ZeroTracers",
        ZeroData(data, args.iDataWorking, "State"),
        <<"ZeroData", args.iDataWorking, "State">>)

H4_ZeroTracers ==
    Statement("h4ZeroTracers", "h4Scalar1",
        ZeroData(data, args.iDataWorking, "Tracers"),
        <<"ZeroData", args.iDataWorking, "Tracers">>)

H4_Scalar1 ==
    Statement("h4Scalar1", "h4Vector1",
        ApplyScalarHyperdiffusion(data, args.iDataInitial, args.iDataWorking,
            One, One, FALSE, -1, FALSE),
        ScalarCall(args.iDataInitial, args.iDataWorking, One, One, FALSE))

H4_Vector1 ==
    Statement("h4Vector1", "h4DSSWorkingState",
        ApplyVectorHyperdiffusion(data, args.iDataInitial, args.iDataInitial,
            args.iDataWorking, One, One, One, FALSE),
        VectorCall(args.iDataInitial, args.iDataInitial, args.iDataWorking,
            One, One, One, FALSE))

H4_DSSWorkingState ==
    Statement("h4DSSWorkingState", "h4DSSWorkingTracers",
        ApplyDSS(data, args.iDataWorking, "State"),
        <<"ApplyDSS", args.iDataWorking, "State">>)

H4_DSSWorkingTracers ==
    Statement("h4DSSWorkingTracers", "h4Scalar2",
        ApplyDSS(data, args.iDataWorking, "Tracers"),
        <<"ApplyDSS", args.iDataWorking, "Tracers">>)

H4_Scalar2 ==
    Statement("h4Scalar2", "h4Vector2",
        ApplyScalarHyperdiffusion(data, args.iDataWorking, args.iDataUpdate,
            RNeg(args.dDeltaT), m_dNuScalar, TRUE, -1, FALSE),
        ScalarCall(args.iDataWorking, args.iDataUpdate, RNeg(args.dDeltaT),
            m_dNuScalar, TRUE))

H4_Vector2 ==
    Statement("h4Vector2", "h4Filter",
        ApplyVectorHyperdiffusion(data, args.iDataInitial, args.iDataWorking,
            args.iDataUpdate, RNeg(args.dDeltaT), m_dNuDiv, m_dNuVort, TRUE),
        VectorCall(args.iDataInitial, args.iDataWorking, args.iDataUpdate,
            RNeg(args.dDeltaT), m_dNuDiv, m_dNuVort, TRUE))

H4_Filter ==
    Statement("h4Filter", "h4DSSState",
        FilterNegativeTracers(data, fFilterTracers, dElementAreaNode,
            args.iDataUpdate),
        <<"FilterNegativeTracers", args.iDataUpdate>>)

H4_DSSState ==
    Statement("h4DSSState", "h4DSSTracers",
        ApplyDSS(data, args.iDataUpdate, "State"),
        <<"ApplyDSS", args.iDataUpdate, "State">>)

H4_DSSTracers ==
    Statement("h4DSSTracers", "return",
        ApplyDSS(data, args.iDataUpdate, "Tracers"),
        <<"ApplyDSS", args.iDataUpdate, "Tracers">>)

\* the end of the function; APPLY_RAYLEIGH_WITH_HYPERVIS is not defined
Return ==
    /\ Goto("return", "done")
    /\ UNCHANGED <<config, data, args, exception, calls, entry>>

Next ==
    \/ StepAfterSubCycle_Call
    \/ CheckInitialWorking_Throw
    \/ CheckInitialWorking_Pass
    \/ CheckUpdateWorking_Throw
    \/ CheckUpdateWorking_Pass
    \/ CopyState
    \/ CopyTracers
    \/ Branch_Take
    \/ Branch_Throw
    \/ H2_Scalar
    \/ H2_Vector
    \/ H2_Filter
    \/ H2_DSSState
    \/ H2_DSSTracers
    \/ H4_ZeroState
    \/ H4_ZeroTracers
    \/ H4_Scalar1
    \/ H4_Vector1
    \/ H4_DSSWorkingState
    \/ H4_DSSWorkingTracers
    \/ H4_Scalar2
    \/ H4_Vector2
    \/ H4_Filter
    \/ H4_DSSState
    \/ H4_DSSTracers
    \/ Return

Spec == Init /\ [][Next]_vars

-----------------------------------------------------------------------------
(* FilterNegativeTracers called on its own, for every small tracer pattern  *)
(* on one element                                                          *)

FilterValues == {Rat(-1, 4), Zero, Rat(1, 2), One}

ElementPatterns == [Order \X Order -> FilterValues]

\* tracer array tr with the nodes of element (a,b) at level k set to pattern
WithPattern(tr, pattern, a, b, k) ==
    [pt \in NodePts |->
        IF pt \in ElementPts(a, b, k)
        THEN pattern[<<LocalOf(pt[1]), LocalOf(pt[2])>>]
        ELSE tr[pt]]

InitFilter ==
    /\ m_nHyperviscosityOrder = 0
    /\ m_dNuScalar = Zero
    /\ m_dNuDiv = Zero
    /\ m_dNuVort = Zero
    /\ fFilterTracers \in BOOLEAN
    /\ dElementAreaNode \in {UniformArea, VaryingArea}
    /\ StandardSetup
    /\ \E pattern \in ElementPatterns, a \in ElemsA, b \in ElemsB,
          k \in LevelsNode, c \in Tracers :
        data = [InitialData EXCEPT ![0].tracers[c] =
                    WithPattern(InitialData[0].tracers[c], pattern, a, b, k)]
    /\ pc = "idle"
    /\ args = NoArgs
    /\ exception = "none"
    /\ calls = <<>>
    /\ entry = data
    /\ OutputAtRest

FilterNegativeTracers_Call ==
    /\ pc = "idle"
    /\ \E ix \in DataIx :
        /\ args' = [NoArgs EXCEPT !.iDataUpdate = ix]
        /\ data' = FilterNegativeTracers(data, fFilterTracers,
                                         dElementAreaNode, ix)
    /\ entry' = data
    /\ pc' = "filtered"
    /\ UNCHANGED <<config, exception, calls>>

NextFilter == FilterNegativeTracers_Call

SpecFilter == InitFilter /\ [][NextFilter]_vars

-----------------------------------------------------------------------------
(* Properties of StepAfterSubCycle, checked under Spec *)

iI == args.iDataInitial
iU == args.iDataUpdate
iW == args.iDataWorking

InvalidIndicesMessages ==
    {"Invalid indices -- initial and working data must be distinct",
     "Invalid indices -- working and update data must be distinct"}

BeforeCopy == {"checkInitialWorking", "checkUpdateWorking"}
BeforeBranch == BeforeCopy \cup {"copyState", "copyTracers", "branch"}
Returned == {"return", "done"}

IsPrefix(s, t) == Len(s) <= Len(t) /\ SubSeq(t, 1, Len(s)) = s

CopyCalls == <<<<"CopyData", iI, iU, "State">>, <<"CopyData", iI, iU, "Tracers">>>>

\* C1: a call whose working index equals the initial or the update index never
\* gets past the two index checks: it ends failed with an "Invalid indices"
\* exception, no operation has been invoked and every dataset is as on entry.
C1_InvalidIndicesLeaveData ==
    (pc # "idle" /\ iW \in {iI, iU}) =>
        /\ pc \in BeforeCopy \cup {"failed"}
        /\ (pc = "failed" => exception \in InvalidIndicesMessages)
        /\ data = entry
        /\ calls = <<>>

C1_Witness ==
    /\ pc = "failed"
    /\ iW = iU
    /\ iW # iI
    /\ exception = "Invalid indices -- working and update data must be distinct"
    /\ data = entry

\* C2 as stated: with valid indices and an order other than 0, 2 or 4 the call
\* never returns normally, whatever the coefficients.
C2_Original ==
    (pc \in Returned) => m_nHyperviscosityOrder \in {0, 2, 4}

\* C2 amended: with valid indices, an order other than 0, 2 or 4 and at least
\* one nonzero coefficient, the call fails with "Invalid viscosity order"
\* as soon as it leaves the branch.
C2_InvalidOrderThrows ==
    (/\ pc \notin {"idle"} \cup BeforeBranch
     /\ iW \notin {iI, iU}
     /\ m_nHyperviscosityOrder \notin {0, 2, 4}
     /\ ~NoHyperdiffusion) =>
        /\ pc = "failed"
        /\ exception = "Invalid viscosity order"

C2_Witness ==
    /\ pc = "failed"
    /\ exception = "Invalid viscosity order"
    /\ m_nHyperviscosityOrder = 3
    /\ RIsZero(m_dNuScalar)
    /\ ~RIsZero(m_dNuVort)

\* C3: when all three coefficients are zero or the order is 0, a call only
\* performs the two copies: it never fails after the index checks, and it
\* returns with the update dataset equal to the initial dataset as on entry.
C3_CopyOnly ==
    ((NoHyperdiffusion \/ m_nHyperviscosityOrder = 0) /\ pc # "idle") =>
        /\ pc \in BeforeBranch \cup Returned \cup {"failed"}
        /\ (pc = "failed" => exception \in InvalidIndicesMessages)
        /\ (pc \in Returned =>
                /\ calls = CopyCalls
                /\ data[iU] = entry[iI]
                /\ data[iI] = entry[iI])

C3_Witness ==
    /\ pc = "done"
    /\ m_nHyperviscosityOrder = 2
    /\ NoHyperdiffusion
    /\ iI # iU
    /\ entry[iU] # entry[iI]
    /\ data[iU] = entry[iI]

\* C4 as stated: after every call that returns with an order in {0,2,4} the
\* initial dataset is as it was on entry.
C4_Original ==
    (pc = "done" /\ m_nHyperviscosityOrder \in {0, 2, 4}) =>
        data[iI] = entry[iI]

\* C4 amended: when the update index differs from the initial index, the
\* initial dataset keeps its entry contents throughout the call, for every
\* order in {0,2,4}.
C4_InitialUnchanged ==
    (pc # "idle" /\ iI # iU /\ m_nHyperviscosityOrder \in {0, 2, 4}) =>
        data[iI] = entry[iI]

C4_Witness ==
    /\ pc = "done"
    /\ m_nHyperviscosityOrder = 4
    /\ ~NoHyperdiffusion
    /\ iI # iU
    /\ data[iU] # entry[iI]
    /\ data[iW] # entry[iW]

\* a logged call that accumulates a diffusion term into the update dataset
DiffusesIntoUpdate(call) ==
    \/ call[1] = "ApplyScalarHyperdiffusion" /\ call[3] = iU
    \/ call[1] = "ApplyVectorHyperdiffusion" /\ call[4] = iU

\* position of the last such call before position n, or 0
LastDiffusionBefore(n) ==
    LET S == {m \in 1 .. (n - 1) : DiffusesIntoUpdate(calls[m])}
    IN  IF S = {} THEN 0 ELSE CHOOSE m \in S : \A q \in S : q <= m

\* C5: whenever DSS of the update tracers has been invoked, exactly one
\* FilterNegativeTracers call on the update dataset lies between the last
\* hyperdiffusion into update and that DSS.
C5_FilterBeforeTracerDSS ==
    \A n \in 1 .. Len(calls) :
        calls[n] = <<"ApplyDSS", iU, "Tracers">> =>
            Cardinality({f \in (LastDiffusionBefore(n) + 1) .. (n - 1) :
                            calls[f] = <<"FilterNegativeTracers", iU>>}) = 1

C5_Witness ==
    /\ pc = "done"
    /\ m_nHyperviscosityOrder = 2
    /\ Len(calls) = 7
    /\ calls[7] = <<"ApplyDSS", iU, "Tracers">>
    /\ LastDiffusionBefore(7) = 4
    /\ calls[5] = <<"FilterNegativeTracers", iU>>

ExpectedCallsH2 ==
    CopyCalls \o
    << <<"ApplyScalarHyperdiffusion", iI, iU, args.dDeltaT, m_dNuScalar, FALSE>>,
       <<"ApplyVectorHyperdiffusion", iI, iI, iU, RNeg(args.dDeltaT),
         m_dNuDiv, m_dNuVort, FALSE>>,
       <<"FilterNegativeTracers", iU>>,
       <<"ApplyDSS", iU, "State">>,
       <<"ApplyDSS", iU, "Tracers">> >>

\* C6: with order 2 and a nonzero coefficient, a call that passed the index
\* checks invokes exactly copy (state, tracers), scalar diffusion initial ->
\* update, vector diffusion initial -> update with -dt, filter on update, DSS
\* of update state, DSS of update tracers, in this order, and the working
\* dataset keeps its entry contents throughout.
C6_SequenceOrder2 ==
    (/\ m_nHyperviscosityOrder = 2
     /\ ~NoHyperdiffusion
     /\ pc \notin {"idle", "failed"}) =>
        /\ IsPrefix(calls, ExpectedCallsH2)
        /\ (pc \in Returned => calls = ExpectedCallsH2)
        /\ (iW \notin {iI, iU} => data[iW] = entry[iW])

C6_Witness ==
    /\ pc = "done"
    /\ m_nHyperviscosityOrder = 2
    /\ ~NoHyperdiffusion
    /\ calls = ExpectedCallsH2
    /\ data[iU] # entry[iI]

ExpectedCallsH4 ==
    CopyCalls \o
    << <<"ZeroData", iW, "State">>,
       <<"ZeroData", iW, "Tracers">>,
       <<"ApplyScalarHyperdiffusion", iI, iW, One, One, FALSE>>,
       <<"ApplyVectorHyperdiffusion", iI, iI, iW, One, One, One, FALSE>>,
       <<"ApplyDSS", iW, "State">>,
       <<"ApplyDSS", iW, "Tracers">>,
       <<"ApplyScalarHyperdiffusion", iW, iU, RNeg(args.dDeltaT), m_dNuScalar, TRUE>>,
       <<"ApplyVectorHyperdiffusion", iI, iW, iU, RNeg(args.dDeltaT),
         m_dNuDiv, m_dNuVort, TRUE>>,
       <<"FilterNegativeTracers", iU>>,
       <<"ApplyDSS", iU, "State">>,
       <<"ApplyDSS", iU, "Tracers">> >>

ZeroDataset ==
    [state |-> [c \in Components |-> [pt \in PtsOf(c) |-> Zero]],
     stateREdge |-> [c \in NodeComponents |-> [pt \in REdgePts |-> Zero]],
     tracers |-> [c \in Tracers |-> [pt \in NodePts |-> Zero]]]

\* the working dataset after the first pass, computed from the initial dataset
\* as on entry and a zero working dataset
FirstPassFromZero ==
    LET z == [entry EXCEPT ![iW] = ZeroDataset]
        sc == ApplyScalarHyperdiffusion(z, iI, iW, One, One, FALSE, -1, FALSE)
    IN  ApplyVectorHyperdiffusion(sc, iI, iI, iW, One, One, One, FALSE)[iW]

\* C7: with order 4 and a nonzero coefficient, a call that passed the index
\* checks invokes exactly the listed operations in the listed order; the
\* working dataset is all zero when the first pass starts, and after the first
\* pass it is what the first pass yields from a zero dataset, whatever it held
\* on entry.
C7_SequenceOrder4 ==
    (/\ m_nHyperviscosityOrder = 4
     /\ ~NoHyperdiffusion
     /\ pc \notin {"idle", "failed"}) =>
        /\ IsPrefix(calls, ExpectedCallsH4)
        /\ (pc \in Returned => calls = ExpectedCallsH4)
        /\ (pc = "h4Scalar1" => data[iW] = ZeroDataset)
        /\ (pc = "h4DSSWorkingState" => data[iW] = FirstPassFromZero)

C7_Witness ==
    /\ pc = "h4DSSWorkingState"
    /\ m_nHyperviscosityOrder = 4
    /\ entry[iW] # ZeroDataset
    /\ data[iW] # ZeroDataset
    /\ data[iW] = FirstPassFromZero

-----------------------------------------------------------------------------
(* Properties of FilterNegativeTracers, checked under SpecFilter *)

Filtered == pc = "filtered" /\ fFilterTracers

TracerBefore(c) == entry[args.iDataUpdate].tracers[c]
TracerAfter(c) == data[args.iDataUpdate].tracers[c]

FilterCases == Tracers \X ElemsA \X ElemsB \X LevelsNode

\* M+: the area-weighted sum over the nodes whose value is > 0
PositiveMass(tr, area, a, b, k) ==
    LET S == {pt \in ElementPts(a, b, k) : RGtZero(tr[pt])}
    IN  RSum([pt \in S |-> RMul(tr[pt], area[pt])], S)

\* C8 as stated: after the filter every tracer value at every node of every
\* element and level is >= 0.
C8_Positivity ==
    Filtered =>
        \A c \in Tracers : \A pt \in NodePts :
            IsInterior(pt) => RGeZero(TracerAfter(c)[pt])

\* C9: for every tracer, element and level whose positive mass M+ before the
\* filter is > 0, the area-weighted sum over the element's nodes after the
\* filter equals the sum before it.
C9_MassConserved ==
    Filtered =>
        \A e \in FilterCases :
            RGtZero(PositiveMass(TracerBefore(e[1]), dElementAreaNode,
                                 e[2], e[3], e[4])) =>
                TotalMass(TracerAfter(e[1]), dElementAreaNode, e[2], e[3], e[4])
                    = TotalMass(TracerBefore(e[1]), dElementAreaNode,
                                e[2], e[3], e[4])

\* the values of a tracer at the four nodes of an element of order 2
ElementValues(tr, a, b, k) ==
    <<tr[<<ElementStart(a), ElementStart(b), k>>],
      tr[<<ElementStart(a), ElementStart(b) + 1, k>>],
      tr[<<ElementStart(a) + 1, ElementStart(b), k>>],
      tr[<<ElementStart(a) + 1, ElementStart(b) + 1, k>>]>>

\* the example {1, -1/4, 1/2, 0} with equal weights becomes
\* {5/6, 0, 5/12, 0}, total 5/4
C9_Witness ==
    /\ Filtered
    /\ dElementAreaNode = UniformArea
    /\ \E e \in FilterCases :
        /\ ElementValues(TracerBefore(e[1]), e[2], e[3], e[4])
            = <<One, Rat(-1, 4), Rat(1, 2), Zero>>
        /\ ElementValues(TracerAfter(e[1]), e[2], e[3], e[4])
            = <<Rat(5, 6), Zero, Rat(5, 12), Zero>>
        /\ TotalMass(TracerAfter(e[1]), dElementAreaNode, e[2], e[3], e[4])
            = Rat(5, 4)

\* C10 as stated: when the total area-weighted mass of a tracer over an
\* element and level is negative, the filter sets every node of that element
\* and level to zero.
C10_NegativeMassZeroed ==
    Filtered =>
        \A e \in FilterCases :
            RLtZero(TotalMass(TracerBefore(e[1]), dElementAreaNode,
                              e[2], e[3], e[4])) =>
                \A pt \in ElementPts(e[2], e[3], e[4]) :
                    TracerAfter(e[1])[pt] = Zero

-----------------------------------------------------------------------------
(* HighSpeedDynamics::StepImplicit, one action per loop nest of an element *)

\* interface array of component c of dataset ix: the state itself for a
\* component kept on interfaces, the auxiliary array otherwise
REdgeOf(d, ix, c) ==
    IF VarLocation(c) = "REdge" THEN d[ix].state[c] ELSE d[ix].stateREdge[c]

\* the horizontal indices of the nodes of element e = <<a, b>>
ElementColumns(e) ==
    {<<ElementStart(e[1]) + i, ElementStart(e[2]) + j>> : i \in Order, j \in Order}

InElement(pt, e) == <<pt[1], pt[2]>> \in ElementColumns(e)

\* the element loops: b runs fastest
FirstElement == <<0, 0>>
LastElement == <<NElementsA - 1, NElementsB - 1>>
NextElement(e) ==
    IF e[2] < NElementsB - 1 THEN <<e[1], e[2] + 1>> ELSE <<e[1] + 1, 0>>

\* mutant: the pressure is stored for every node of the patch
ImplicitPressure_WholePatch(dP, d, iDataInitial, e) ==
    [pt \in NodePts |-> PressureFromRhoTheta(d[iDataInitial].state[PIx][pt])]

\* mutant: the pressure loop is missing and the cache is used as it is
ImplicitPressure_Stale(dP, d, iDataInitial, e) == dP

\* dataPressure after the pressure loop of element e
ImplicitPressure(dP, d, iDataInitial, e) ==
    [pt \in NodePts |->
        IF InElement(pt, e)
        THEN PressureFromRhoTheta(d[iDataInitial].state[PIx][pt])
        ELSE dP[pt]]

\* m_dDpDTheta after the pressure loop of element e: every level is stored
DpDTheta(dP, d, iDataInitial, e) ==
    [q \in NodeColumnPts |->
        LET pt == <<ElementStart(e[1]) + q[1], ElementStart(e[2]) + q[2], q[3]>>
        IN  RDiv(RMul(dP[pt], Gamma), d[iDataInitial].state[PIx][pt])]

\* the data after the flux loop of element e: density and theta on the inner
\* interfaces of the initial dataset
ImplicitFluxes(d, iDataInitial, e) ==
    LET node == d[iDataInitial].state
        inner(pt) == InElement(pt, e) /\ pt[3] >= 1 /\ pt[3] < nRElements
        below(pt) == <<pt[1], pt[2], pt[3] - 1>>
        rhoREdge == Stored([pt \in REdgePts |->
                        IF inner(pt)
                        THEN RMul(Half, RAdd(node[RIx][pt], node[RIx][below(pt)]))
                        ELSE d[iDataInitial].stateREdge[RIx][pt]])
    IN  [d EXCEPT
            ![iDataInitial].stateREdge[RIx] = rhoREdge,
            ![iDataInitial].stateREdge[PIx] =
                [pt \in REdgePts |->
                    IF inner(pt)
                    THEN RMul(RMul(Half, RDiv(One, rhoREdge[pt])),
                              RAdd(node[PIx][pt], node[PIx][below(pt)]))
                    ELSE @[pt]]]

\* the coefficients of row k (1 <= k < nRElements) of the column (i, j) of
\* element e, with T the contents of m_dDpDTheta
ImplicitRow(T, dP, d, iDataInitial, dDeltaT, e, i, j, k) ==
    LET iA == ElementStart(e[1]) + i
        iB == ElementStart(e[2]) + j
        dDeltaT2 == RMul(dDeltaT, dDeltaT)
        dInvDeltaZk == RDiv(One, RSub(dataZi(iA, iB, k + 1), dataZi(iA, iB, k)))
        dInvDeltaZkm == RDiv(One, RSub(dataZi(iA, iB, k), dataZi(iA, iB, k - 1)))
        dInvDeltaZhat == RDiv(One, RSub(dataZn(iA, iB, k), dataZn(iA, iB, k - 1)))
        theta == d[iDataInitial].stateREdge[PIx]
        dpk == T[<<i, j, k>>]
        dpkm == T[<<i, j, k - 1>>]
        halfG == RMul(Half, GetG)
        dDzPressure == RMul(dInvDeltaZhat,
                            RSub(dP[<<iA, iB, k>>], dP[<<iA, iB, k - 1>>]))
        dIntRho == RMul(GetG, d[iDataInitial].stateREdge[RIx][<<iA, iB, k>>])
    IN  [a |-> RNeg(RMul(RMul(dDeltaT2, dInvDeltaZkm),
                         RSub(RMul(RMul(dInvDeltaZhat, dpkm),
                                   theta[<<iA, iB, k - 1>>]),
                              halfG))),
         b |-> RAdd(One,
                    RMul(dDeltaT2,
                         RAdd(RMul(RMul(dInvDeltaZhat, theta[<<iA, iB, k>>]),
                                   RAdd(RMul(dpk, dInvDeltaZk),
                                        RMul(dpkm, dInvDeltaZkm))),
                              RMul(halfG, RSub(dInvDeltaZk, dInvDeltaZkm))))),
         c |-> RNeg(RMul(RMul(dDeltaT2, dInvDeltaZk),
                         RAdd(RMul(RMul(dInvDeltaZhat, dpk),
                                   theta[<<iA, iB, k + 1>>]),
                              halfG))),
         d |-> RSub(d[iDataInitial].state[WIx][<<iA, iB, k>>],
                    RMul(dDeltaT, RAdd(dDzPressure, dIntRho)))]

\* mutant: the top row of the system is not reset
ImplicitFill_StaleTop(A, B, C, D, T, dP, d, iDataInitial, dDeltaT, e) ==
    LET EA == ElementStart(e[1])
        EB == ElementStart(e[2])
        row == Stored([q \in {r \in ColumnPts : r[3] >= 1 /\ r[3] < nRElements} |->
                    ImplicitRow(T, dP, d, iDataInitial, dDeltaT, e,
                                q[1], q[2], q[3])])
        inner(k) == k >= 1 /\ k < nRElements
    IN  [A |-> [q \in ColumnPts |->
                    IF inner(q[3] + 1) THEN row[<<q[1], q[2], q[3] + 1>>].a
                    ELSE IF q[3] = 0 THEN Zero ELSE A[q]],
         B |-> [q \in ColumnPts |->
                    IF inner(q[3]) THEN row[q].b
                    ELSE IF q[3] = 0 THEN One ELSE B[q]],
         C |-> [q \in ColumnPts |->
                    IF inner(q[3]) THEN row[q].c
                    ELSE IF q[3] = 0 THEN Zero ELSE C[q]],
         D |-> [q \in ColumnPts |->
                    IF inner(q[3]) THEN row[q].d
                    ELSE IF q[3] = 0 THEN Zero ELSE D[q]]]

\* mutant: the right-hand side of a row is added to what m_dD holds
ImplicitFill_AccumulateD(A, B, C, D, T, dP, d, iDataInitial, dDeltaT, e) ==
    LET EA == ElementStart(e[1])
        EB == ElementStart(e[2])
        row == Stored([q \in {r \in ColumnPts : r[3] >= 1 /\ r[3] < nRElements} |->
                    ImplicitRow(T, dP, d, iDataInitial, dDeltaT, e,
                                q[1], q[2], q[3])])
        inner(k) == k >= 1 /\ k < nRElements
    IN  [A |-> [q \in ColumnPts |->
                    IF inner(q[3] + 1) THEN row[<<q[1], q[2], q[3] + 1>>].a
                    ELSE IF q[3] = 0 THEN Zero ELSE A[q]],
         B |-> [q \in ColumnPts |->
                    IF inner(q[3]) THEN row[q].b
                    ELSE IF q[3] = 0 \/ q[3] = nRElements THEN One ELSE B[q]],
         C |-> [q \in ColumnPts |->
                    IF inner(q[3]) THEN row[q].c
                    ELSE IF q[3] = 0 THEN Zero ELSE C[q]],
         D |-> [q \in ColumnPts |->
                    IF inner(q[3]) THEN RAdd(D[q], row[q].d)
                    ELSE IF q[3] = 0 \/ q[3] = nRElements THEN Zero ELSE D[q]]]

\* mutant: the bottom row has right-hand side 1, a vertical momentum through
\* the ground
ImplicitFill_BottomInflow(A, B, C, D, T, dP, d, iDataInitial, dDeltaT, e) ==
    LET EA == ElementStart(e[1])
        EB == ElementStart(e[2])
        row == Stored([q \in {r \in ColumnPts : r[3] >= 1 /\ r[3] < nRElements} |->
                    ImplicitRow(T, dP, d, iDataInitial, dDeltaT, e,
                                q[1], q[2], q[3])])
        inner(k) == k >= 1 /\ k < nRElements
    IN  [A |-> [q \in ColumnPts |->
                    IF inner(q[3] + 1) THEN row[<<q[1], q[2], q[3] + 1>>].a
                    ELSE IF q[3] = 0 THEN Zero ELSE A[q]],
         B |-> [q \in ColumnPts |->
                    IF inner(q[3]) THEN row[q].b
                    ELSE IF q[3] = 0 \/ q[3] = nRElements THEN One ELSE B[q]],
         C |-> [q \in ColumnPts |->
                    IF inner(q[3]) THEN row[q].c
                    ELSE IF q[3] = 0 THEN Zero ELSE C[q]],
         D |-> [q \in ColumnPts |->
                    IF inner(q[3]) THEN row[q].d
                    ELSE IF q[3] = 0 THEN One
                    ELSE IF q[3] = nRElements THEN Zero ELSE D[q]]]

\* the four buffers after the two fill loops of element e: the boundary
\* entries first, then the rows 1 .. nRElements - 1, which set m_dA(k - 1)
ImplicitFill(A, B, C, D, T, dP, d, iDataInitial, dDeltaT, e) ==
    LET EA == ElementStart(e[1])
        EB == ElementStart(e[2])
        row == Stored([q \in {r \in ColumnPts : r[3] >= 1 /\ r[3] < nRElements} |->
                    ImplicitRow(T, dP, d, iDataInitial, dDeltaT, e,
                                q[1], q[2], q[3])])
        inner(k) == k >= 1 /\ k < nRElements
    IN  [A |-> [q \in ColumnPts |->
                    IF inner(q[3] + 1) THEN row[<<q[1], q[2], q[3] + 1>>].a
                    ELSE IF q[3] = 0 THEN Zero ELSE A[q]],
         B |-> [q \in ColumnPts |->
                    IF inner(q[3]) THEN row[q].b
                    ELSE IF q[3] = 0 \/ q[3] = nRElements THEN One ELSE B[q]],
         C |-> [q \in ColumnPts |->
                    IF inner(q[3]) THEN row[q].c
                    ELSE IF q[3] = 0 THEN Zero ELSE C[q]],
         D |-> [q \in ColumnPts |->
                    IF inner(q[3]) THEN row[q].d
                    ELSE IF q[3] = 0 \/ q[3] = nRElements THEN Zero ELSE D[q]]]

\* build with TEMPEST_LAPACK_FORTRAN_INTERFACE
LapackInterface == "FORTRAN"

\* the buffers and the statuses after the solves of all columns of the element
ImplicitSolve(A, B, C, D, info) ==
    LET col(X, q) == [k \in LevelsREdge |-> X[<<q[1], q[2], k>>]]
        sol == Stored([q \in Columns |->
                    Dgtsv(col(A, q), col(B, q), col(C, q), col(D, q))])
        cq(q) == <<q[1], q[2]>>
    IN  IF LapackInterface = "none" THEN
            [A |-> A, B |-> B, C |-> C, D |-> D, info |-> info]
        ELSE
            [A |-> [q \in ColumnPts |-> sol[cq(q)].dl[q[3]]],
             B |-> [q \in ColumnPts |-> sol[cq(q)].d[q[3]]],
             C |-> [q \in ColumnPts |-> sol[cq(q)].du[q[3]]],
             D |-> [q \in ColumnPts |-> sol[cq(q)].b[q[3]]],
             info |-> [q \in Columns |->
                        IF LapackInterface = "ESSL" THEN 0 ELSE sol[q].info]]

\* mutant: the density takes the flux difference, not divided by the thickness
ImplicitUpdate_NoThickness(d, D, iDataInitial, iDataUpdate, dDeltaT, e) ==
    LET EA == ElementStart(e[1])
        EB == ElementStart(e[2])
        sol(pt) == D[<<pt[1] - EA, pt[2] - EB, pt[3]>>]
        solAbove(pt) == D[<<pt[1] - EA, pt[2] - EB, pt[3] + 1>>]
        above(pt) == <<pt[1], pt[2], pt[3] + 1>>
        theta == d[iDataInitial].stateREdge[PIx]
        dInvDeltaZn(pt) ==
            RDiv(One, RSub(dataZi(pt[1], pt[2], pt[3] + 1),
                           dataZi(pt[1], pt[2], pt[3])))
        dDzMassFlux(pt) == RSub(solAbove(pt), sol(pt))
        dDzPressureFlux(pt) ==
            RMul(dInvDeltaZn(pt),
                 RSub(RMul(solAbove(pt), theta[above(pt)]),
                      RMul(sol(pt), theta[pt])))
    IN  [d EXCEPT
            ![iDataUpdate].state =
                [c \in Components |->
                    [pt \in PtsOf(c) |->
                        IF ~InElement(pt, e) \/ pt[3] >= nRElements THEN @[c][pt]
                        ELSE IF c = WIx
                        THEN RAdd(@[c][pt],
                                  RSub(sol(pt), d[iDataInitial].state[WIx][pt]))
                        ELSE IF c = RIx
                        THEN RAdd(@[c][pt], RNeg(RMul(dDeltaT, dDzMassFlux(pt))))
                        ELSE IF c = PIx
                        THEN RAdd(@[c][pt],
                                  RNeg(RMul(dDeltaT, dDzPressureFlux(pt))))
                        ELSE @[c][pt]]]]

\* the data after the update loop of element e
ImplicitUpdate(d, D, iDataInitial, iDataUpdate, dDeltaT, e) ==
    LET EA == ElementStart(e[1])
        EB == ElementStart(e[2])
        sol(pt) == D[<<pt[1] - EA, pt[2] - EB, pt[3]>>]
        solAbove(pt) == D[<<pt[1] - EA, pt[2] - EB, pt[3] + 1>>]
        above(pt) == <<pt[1], pt[2], pt[3] + 1>>
        theta == d[iDataInitial].stateREdge[PIx]
        dInvDeltaZn(pt) ==
            RDiv(One, RSub(dataZi(pt[1], pt[2], pt[3] + 1),
                           dataZi(pt[1], pt[2], pt[3])))
        dDzMassFlux(pt) == RMul(dInvDeltaZn(pt), RSub(solAbove(pt), sol(pt)))
        dDzPressureFlux(pt) ==
            RMul(dInvDeltaZn(pt),
                 RSub(RMul(solAbove(pt), theta[above(pt)]),
                      RMul(sol(pt), theta[pt])))
    IN  [d EXCEPT
            ![iDataUpdate].state =
                [c \in Components |->
                    [pt \in PtsOf(c) |->
                        IF ~InElement(pt, e) \/ pt[3] >= nRElements THEN @[c][pt]
                        ELSE IF c = WIx
                        THEN RAdd(@[c][pt],
                                  RSub(sol(pt), d[iDataInitial].state[WIx][pt]))
                        ELSE IF c = RIx
                        THEN RAdd(@[c][pt], RNeg(RMul(dDeltaT, dDzMassFlux(pt))))
                        ELSE IF c = PIx
                        THEN RAdd(@[c][pt],
                                  RNeg(RMul(dDeltaT, dDzPressureFlux(pt))))
                        ELSE @[c][pt]]]]

\* mutant: the boundary condition is applied on the top interface
ImplicitBoundary_Top(d, iDataUpdate, e) ==
    [d EXCEPT ![iDataUpdate].state[WIx] =
        [pt \in REdgePts |->
            IF InElement(pt, e) /\ pt[3] = nRElements THEN Zero ELSE @[pt]]]

\* the data after the boundary loop of element e: W = 0 on the lowest interface
ImplicitBoundary(d, iDataUpdate, e) ==
    [d EXCEPT ![iDataUpdate].state[WIx] =
        [pt \in REdgePts |->
            IF InElement(pt, e) /\ pt[3] = 0 THEN Zero ELSE @[pt]]]

\* the drivers of a run: the stages they call, in order
Stages == {"StepExplicit", "StepImplicit"}
Schedules == {<<x, y>> : x \in Stages, y \in Stages}

\* some driver that has made the calls so far calls stage next
CanCall(stage) ==
    \E s \in Schedules :
        /\ Len(calls) < Len(s)
        /\ \A n \in 1 .. Len(calls) : calls[n][1] = s[n]
        /\ s[Len(calls) + 1] = stage

\* the record of a stage call in calls: the stage, its two dataset indices and
\* the log of what the call has done so far: <<"ComputePressure", ix>>,
\* <<"Sweep", e>> when the stores of element e are complete, and
\* <<"ApplyDSS", ix, type>>
StageCall(stage, iDataInitial, iDataUpdate) ==
    <<stage, iDataInitial, iDataUpdate, <<>>>>

\* the running stage call logs ev
Logged(ev) == calls' = [calls EXCEPT ![Len(calls)][4] = Append(@, ev)]

StageArgs(iDataInitial, iDataUpdate, dDeltaT) ==
    [iDataInitial |-> iDataInitial, iDataUpdate |-> iDataUpdate,
     iDataWorking |-> -1, dDeltaT |-> dDeltaT]

\* a DataArray3D before Allocate
Unallocated == <<>>

\* mutant: the grid type is not checked
Initialize_NoGridCheck ==
    /\ pc = "constructed"
    /\ IF ~fPrognosticContravariantMomenta
       THEN /\ Throw("Prognostic covariant velocities not supported")
            /\ UNCHANGED <<m_dA, m_dB, m_dC, m_dD, m_nInfo, auxiliary>>
       ELSE /\ m_dA' = Allocated
            /\ m_dB' = Allocated
            /\ m_dC' = Allocated
            /\ m_dD' = Allocated
            /\ m_nInfo' = [q \in Columns |-> 0]
            /\ auxiliary' = AllocatedAuxiliary
            /\ pc' = "idle"
            /\ UNCHANGED exception
    /\ UNCHANGED <<setup, data, args, calls, entry, dataPressure, elem>>

\* HighSpeedDynamics::Initialize
Initialize ==
    /\ pc = "constructed"
    /\ IF ~fPrognosticContravariantMomenta
       THEN /\ Throw("Prognostic covariant velocities not supported")
            /\ UNCHANGED <<m_dA, m_dB, m_dC, m_dD, m_nInfo, auxiliary>>
       ELSE IF ~fGridIsGLL
       THEN /\ Throw("Grid must be of type GridGLL")
            /\ UNCHANGED <<m_dA, m_dB, m_dC, m_dD, m_nInfo, auxiliary>>
       ELSE /\ m_dA' = Allocated
            /\ m_dB' = Allocated
            /\ m_dC' = Allocated
            /\ m_dD' = Allocated
            /\ m_nInfo' = [q \in Columns |-> 0]
            /\ auxiliary' = AllocatedAuxiliary
            /\ pc' = "idle"
            /\ UNCHANGED exception
    /\ UNCHANGED <<setup, data, args, calls, entry, dataPressure, elem>>

StepImplicit_Call ==
    /\ pc = "idle"
    /\ CanCall("StepImplicit")
    /\ \E iDataInitial \in DataIx, iDataUpdate \in DataIx, dt \in DeltaTValues :
        /\ args' = StageArgs(iDataInitial, iDataUpdate, dt)
        /\ calls' = Append(calls, StageCall("StepImplicit", iDataInitial, iDataUpdate))
    /\ entry' = data
    /\ elem' = FirstElement
    /\ pc' = "implicitPressure"
    /\ UNCHANGED <<setup, data, exception, m_dA, m_dB, m_dC, m_dD, m_nInfo, auxiliary,
                   dataPressure>>

Implicit_Pressure ==
    /\ Goto("implicitPressure", "implicitFluxes")
    /\ dataPressure' = ImplicitPressure(dataPressure, data, args.iDataInitial, elem)
    /\ auxiliary' = [auxiliary EXCEPT !.m_dDpDTheta =
                        DpDTheta(dataPressure', data, args.iDataInitial, elem)]
    /\ UNCHANGED <<setup, data, args, exception, calls, entry, m_dA, m_dB,
                   m_dC, m_dD, m_nInfo, elem>>

Implicit_Fluxes ==
    /\ Goto("implicitFluxes", "implicitFill")
    /\ data' = ImplicitFluxes(data, args.iDataInitial, elem)
    /\ UNCHANGED <<setup, args, exception, calls, entry, scratch>>

Implicit_Fill ==
    /\ Goto("implicitFill", "implicitSolve")
    /\ LET f == ImplicitFill(m_dA, m_dB, m_dC, m_dD, auxiliary.m_dDpDTheta, dataPressure, data,
                             args.iDataInitial, args.dDeltaT, elem)
       IN  /\ m_dA' = f.A
           /\ m_dB' = f.B
           /\ m_dC' = f.C
           /\ m_dD' = f.D
    /\ UNCHANGED <<setup, data, args, exception, calls, entry, m_nInfo, auxiliary,
                   dataPressure, elem>>

Implicit_Solve ==
    /\ Goto("implicitSolve", "implicitCheck")
    /\ LET r == ImplicitSolve(m_dA, m_dB, m_dC, m_dD, m_nInfo)
       IN  /\ m_dA' = r.A
           /\ m_dB' = r.B
           /\ m_dC' = r.C
           /\ m_dD' = r.D
           /\ m_nInfo' = r.info
    /\ UNCHANGED <<setup, data, args, exception, calls, entry, dataPressure,
                   elem, auxiliary>>

\* mutant: the statuses of the solves are ignored
Implicit_Check_Ignored ==
    /\ Goto("implicitCheck", "implicitUpdate")
    /\ UNCHANGED exception
    /\ UNCHANGED <<setup, data, args, calls, entry, scratch>>

\* if (m_nInfo(i,j) != 0) _EXCEPTION1("Failure in tridiagonal solve: %i", ...)
Implicit_Check ==
    /\ pc = "implicitCheck"
    /\ IF \E q \in Columns : m_nInfo[q] # 0
       THEN Throw("Failure in tridiagonal solve")
       ELSE pc' = "implicitUpdate" /\ UNCHANGED exception
    /\ UNCHANGED <<setup, data, args, calls, entry, scratch>>

Implicit_Update ==
    /\ Goto("implicitUpdate", "implicitBoundary")
    /\ data' = ImplicitUpdate(data, m_dD, args.iDataInitial, args.iDataUpdate,
                              args.dDeltaT, elem)
    /\ UNCHANGED <<setup, args, exception, calls, entry, scratch>>

\* the boundary loop, then the next element or the end of the element loops
Implicit_Boundary ==
    /\ pc = "implicitBoundary"
    /\ data' = ImplicitBoundary(data, args.iDataUpdate, elem)
    /\ IF elem = LastElement
       THEN pc' = "implicitDSS" /\ elem' = NoElement
       ELSE pc' = "implicitPressure" /\ elem' = NextElement(elem)
    /\ Logged(<<"Sweep", elem>>)
    /\ UNCHANGED <<setup, args, exception, entry, m_dA, m_dB, m_dC,
                   m_dD, m_nInfo, auxiliary, dataPressure>>

\* pGrid->ApplyDSS(iDataUpdate, DataType_State)
Implicit_DSS ==
    /\ Goto("implicitDSS", "idle")
    /\ data' = ApplyDSS(data, args.iDataUpdate, "State")
    /\ Logged(<<"ApplyDSS", args.iDataUpdate, "State">>)
    /\ UNCHANGED <<setup, args, exception, entry, scratch>>

-----------------------------------------------------------------------------
(* The stages from construction on: Initialize, then explicit and implicit   *)
(* stages in any order                                                       *)

\* datasets 0, 1, 3, ... hold a positive density and rho theta, (1, 1) or
\* (4, 2) from column to column; dataset 2 is a blown-up state with negative
\* density, for which the vertical system of every column of two levels is
\* singular when dDeltaT = 1/2
StageValue(ix, c, pt) ==
    IF c = RIx
    THEN (IF ix = 2 THEN Rat(-8, 15) ELSE Rat(1 + 3 * ((ix + pt[1]) % 2), 1))
    ELSE IF c = PIx
    THEN (IF ix = 2 THEN One ELSE Rat(1 + ((ix + pt[1]) % 2), 1))
    ELSE Rat(((pt[1] + 2 * pt[2] + ix + c + pt[3]) % 3) - 1, 1)

StageData ==
    [ix \in DataIx |->
        [state |-> [c \in Components |->
                        [pt \in PtsOf(c) |-> StageValue(ix, c, pt)]],
         stateREdge |-> [c \in NodeComponents |->
                        [pt \in REdgePts |-> Rat(1 + c, 1)]],
         tracers |-> InitialData[ix].tracers]]

InitStages ==
    /\ m_nHyperviscosityOrder = 0
    /\ m_dNuScalar = Zero
    /\ m_dNuDiv = Zero
    /\ m_dNuVort = Zero
    /\ fFilterTracers = TRUE
    /\ dElementAreaNode = UniformArea
    /\ nActivePatches = 1
    /\ fPrognosticContravariantMomenta \in BOOLEAN
    /\ fGridIsGLL \in BOOLEAN
    /\ nEqSet = "PrimitiveNonhydrostaticEquations"
    /\ fCartXZ = FALSE
    /\ dataRayleighStrengthNode = [pt \in NodePts |-> Zero]
    /\ dataRayleighStrengthREdge = [pt \in REdgePts |-> Zero]
    /\ m_dA = Unallocated
    /\ m_dB = Unallocated
    /\ m_dC = Unallocated
    /\ m_dD = Unallocated
    /\ m_nInfo = Unallocated
    /\ auxiliary = Unallocated
    /\ dataPressure = [pt \in NodePts |-> Zero]
    /\ elem = NoElement
    /\ data = StageData
    /\ pc = "constructed"
    /\ args = NoArgs
    /\ exception = "none"
    /\ calls = <<>>
    /\ entry = data
    /\ OutputAtRest



-----------------------------------------------------------------------------
(* Claims about the implicit stage *)

\* the stage called last has returned normally
Completed(stage) ==
    /\ pc = "idle"
    /\ Len(calls) > 0
    /\ calls[Len(calls)][1] = stage

InteriorColumns == InteriorA \X InteriorB

\* C11: after every StepImplicit call that completes, W of the update state is
\* exactly 0 on interface k = 0 at every interior node of every element,
\* whatever the datasets held on entry
C11_BottomWZero ==
    Completed("StepImplicit") =>
        \A q \in InteriorColumns :
            data[args.iDataUpdate].state[WIx][<<q[1], q[2], 0>>] = Zero

\* a completed implicit stage whose update state had a nonzero W on the lowest
\* interface of an interior node on entry
C11_Witness ==
    /\ Completed("StepImplicit")
    /\ \E q \in InteriorColumns :
        entry[args.iDataUpdate].state[WIx][<<q[1], q[2], 0>>] # Zero


SolveFailed == pc = "implicitCheck" /\ \E q \in Columns : m_nInfo[q] # 0

TridiagonalSingular == "Failure in tridiagonal solve"

\* the nodes (or interfaces) of component c in element e
PtsInElement(c, e) == {pt \in PtsOf(c) : InElement(pt, e)}

\* C13: when the solver returns a nonzero status for some column of an
\* element, StepImplicit fails with TridiagonalSingular without writing
\* anything more: the update state of that element still holds the values it
\* had on entry of the call, and the closing DSS is not invoked
C13_SolveFailureThrows ==
    /\ [][SolveFailed =>
            /\ pc' = "failed"
            /\ exception' = TridiagonalSingular
            /\ data' = data]_vars
    /\ [](exception = TridiagonalSingular =>
            /\ pc = "failed"
            /\ \A c \in Components : \A pt \in PtsInElement(c, elem) :
                data[args.iDataUpdate].state[c][pt] =
                    entry[args.iDataUpdate].state[c][pt])

\* a stage that failed on a singular column, with an update dataset other
\* than the initial one
C13_Witness ==
    /\ pc = "failed"
    /\ exception = TridiagonalSingular
    /\ \E q \in Columns : m_nInfo[q] # 0
    /\ args.iDataUpdate # args.iDataInitial


-----------------------------------------------------------------------------
(* HighSpeedDynamics::StepExplicit *)

\* the data after the interpolation loop of element e: density, the two
\* horizontal momenta and theta (not rho theta) on the inner interfaces of the
\* initial dataset
ExplicitInterfaces(d, iDataInitial, e) ==
    LET node == d[iDataInitial].state
        inner(pt) == InElement(pt, e) /\ pt[3] >= 1 /\ pt[3] < nRElements
        below(pt) == <<pt[1], pt[2], pt[3] - 1>>
        mean(c, pt) == RMul(Half, RAdd(node[c][below(pt)], node[c][pt]))
        dInvRhoREdge(pt) == RDiv(One, mean(RIx, pt))
    IN  [d EXCEPT ![iDataInitial].stateREdge =
            [c \in NodeComponents |-> [pt \in REdgePts |->
                IF ~inner(pt) THEN @[c][pt]
                ELSE IF c = PIx
                THEN RMul(RMul(dInvRhoREdge(pt), Half),
                          RAdd(node[PIx][below(pt)], node[PIx][pt]))
                ELSE mean(c, pt)]]]

\* the auxiliary buffers after the interface loop and the level loop of
\* element e, from their contents old before the loops: entries 0 and
\* nRElements of the interface buffers are not stored
ExplicitScratch(old, d, iDataInitial, e) ==
    LET EA == ElementStart(e[1])
        EB == ElementStart(e[2])
        at(q) == <<EA + q[1], EB + q[2], q[3]>>
        node == d[iDataInitial].state
        edge(c) == REdgeOf(d, iDataInitial, c)
        inner(q) == q[3] >= 1 /\ q[3] < nRElements
        dInvRhoREdge(q) == RDiv(One, edge(RIx)[at(q)])
        dSDotREdge(q) ==
            RSub(RSub(edge(WIx)[at(q)],
                      RMul(edge(UIx)[at(q)], dDerivRREdge(EA + q[1], EB + q[2], q[3])[1])),
                 RMul(edge(VIx)[at(q)], dDerivRREdge(EA + q[1], EB + q[2], q[3])[2]))
        dSDotInvRhoREdge(q) == RMul(dSDotREdge(q), dInvRhoREdge(q))
        dBaseFlux(q) ==
            RMul(RMul(dJacobianREdge(EA + q[1], EB + q[2], q[3]), edge(WIx)[at(q)]),
                 dInvRhoREdge(q))
        dInvRho(q) == RDiv(One, node[RIx][at(q)])
        ConUa == Stored([q \in NodeColumnPts |-> RMul(dInvRho(q), node[UIx][at(q)])])
        ConUb == Stored([q \in NodeColumnPts |-> RMul(dInvRho(q), node[VIx][at(q)])])
        CovUa == Stored([q \in NodeColumnPts |->
                    RAdd(RMul(dCovMetric2DA(EA + q[1], EB + q[2])[1], ConUa[q]),
                         RMul(dCovMetric2DA(EA + q[1], EB + q[2])[2], ConUb[q]))])
        CovUb == Stored([q \in NodeColumnPts |->
                    RAdd(RMul(dCovMetric2DB(EA + q[1], EB + q[2])[1], ConUa[q]),
                         RMul(dCovMetric2DB(EA + q[1], EB + q[2])[2], ConUb[q]))])
        AlphaMass == Stored([q \in NodeColumnPts |->
                    RMul(dJacobian(at(q)), node[UIx][at(q)])])
        BetaMass == Stored([q \in NodeColumnPts |->
                    RMul(dJacobian(at(q)), node[VIx][at(q)])])
    IN  [m_dSDotUaREdge |-> Stored([q \in ColumnPts |->
                IF inner(q) THEN RMul(dSDotInvRhoREdge(q), edge(UIx)[at(q)])
                ELSE old.m_dSDotUaREdge[q]]),
         m_dSDotUbREdge |-> Stored([q \in ColumnPts |->
                IF inner(q) THEN RMul(dSDotInvRhoREdge(q), edge(VIx)[at(q)])
                ELSE old.m_dSDotUbREdge[q]]),
         m_dAlphaVerticalMomentumFluxREdge |-> Stored([q \in ColumnPts |->
                IF inner(q) THEN RMul(dBaseFlux(q), edge(UIx)[at(q)])
                ELSE old.m_dAlphaVerticalMomentumFluxREdge[q]]),
         m_dBetaVerticalMomentumFluxREdge |-> Stored([q \in ColumnPts |->
                IF inner(q) THEN RMul(dBaseFlux(q), edge(VIx)[at(q)])
                ELSE old.m_dBetaVerticalMomentumFluxREdge[q]]),
         m_d2DConUa |-> ConUa,
         m_d2DConUb |-> ConUb,
         m_d2DCovUa |-> CovUa,
         m_d2DCovUb |-> CovUb,
         m_dAlphaMassFlux |-> AlphaMass,
         m_dBetaMassFlux |-> BetaMass,
         m_dAlphaPressureFlux |-> Stored([q \in NodeColumnPts |->
                RMul(RMul(AlphaMass[q], node[PIx][at(q)]), dInvRho(q))]),
         m_dBetaPressureFlux |-> Stored([q \in NodeColumnPts |->
                RMul(RMul(BetaMass[q], node[PIx][at(q)]), dInvRho(q))]),
         m_dK2 |-> Stored([q \in NodeColumnPts |->
                RMul(Half, RAdd(RMul(CovUa[q], ConUa[q]), RMul(CovUb[q], ConUb[q])))]),
         m_dSDotWNode |-> Stored([q \in NodeColumnPts |->
                RSub(RSub(RMul(Half, RAdd(edge(WIx)[at(q)],
                                          edge(WIx)[<<EA + q[1], EB + q[2], q[3] + 1>>])),
                          RMul(dDerivRNode(EA + q[1], EB + q[2], q[3])[1], node[UIx][at(q)])),
                     RMul(dDerivRNode(EA + q[1], EB + q[2], q[3])[2], node[VIx][at(q)]))]),
         m_dDpDTheta |-> old.m_dDpDTheta]


dContraMetric2DA(iA, iB) == <<One, Zero>>
dContraMetric2DB(iA, iB) == <<Zero, One>>

\* dDzP of dataPressure at level k of the column (iA, iB): one-sided at the
\* lowest and at the highest level
ExplicitDzP(dP, iA, iB, k) ==
    LET lo == IF k = 0 THEN k ELSE k - 1
        hi == IF k = 0 THEN k + 1 ELSE IF k = nRElements - 1 THEN k ELSE k + 1
    IN  RDiv(RSub(dP[<<iA, iB, hi>>], dP[<<iA, iB, lo>>]),
             RSub(dataZn(iA, iB, hi), dataZn(iA, iB, lo)))

\* the tendencies of U, V, R and P at the node q = <<i, j, k>> of element e,
\* already multiplied by dDeltaT
ExplicitNodeTendency(s, d, dP, iDataInitial, dDeltaT, e, q) ==
    LET EA == ElementStart(e[1])
        EB == ElementStart(e[2])
        i == q[1]
        j == q[2]
        k == q[3]
        iA == EA + i
        iB == EB + j
        rho == d[iDataInitial].state[RIx][<<iA, iB, k>>]
        alongA(f, M(_, _)) ==
            RMul(RSum([t \in Order |-> RMul(f[<<t, j, k>>], M(t, i))], Order), dInvElementDeltaA)
        alongB(f, M(_, _)) ==
            RMul(RSum([t \in Order |-> RMul(f[<<i, t, k>>], M(t, j))], Order), dInvElementDeltaB)
        Stiff(t, n) == RNeg(dStiffness1D(n, t))
        dDaMassFluxAlpha == alongA(s.m_dAlphaMassFlux, Stiff)
        dDbMassFluxBeta == alongB(s.m_dBetaMassFlux, Stiff)
        dDaPressureFluxAlpha == alongA(s.m_dAlphaPressureFlux, Stiff)
        dDbPressureFluxBeta == alongB(s.m_dBetaPressureFlux, Stiff)
        dDaKE == alongA(s.m_dK2, dDxBasis1D)
        dDbKE == alongB(s.m_dK2, dDxBasis1D)
        dDaCovUb == alongA(s.m_d2DCovUb, dDxBasis1D)
        dDbCovUa == alongB(s.m_d2DCovUa, dDxBasis1D)
        dDzP == ExplicitDzP(dP, iA, iB, k)
        dDaP == RSub(RMul(RSum([t \in Order |->
                              RMul(dP[<<EA + t, iB, k>>], dDxBasis1D(t, i))], Order),
                          dInvElementDeltaA),
                     RMul(dDerivRNode(iA, iB, k)[1], dDzP))
        dDbP == RSub(RMul(RSum([t \in Order |->
                              RMul(dP[<<iA, EB + t, k>>], dDxBasis1D(t, j))], Order),
                          dInvElementDeltaB),
                     RMul(dDerivRNode(iA, iB, k)[2], dDzP))
        con(M, x, y) == RAdd(RMul(M[1], x), RMul(M[2], y))
        dConDaP == con(dContraMetric2DA(iA, iB), dDaP, dDbP)
        dConDbP == con(dContraMetric2DB(iA, iB), dDaP, dDbP)
        dConDaKE == con(dContraMetric2DA(iA, iB), dDaKE, dDbKE)
        dConDbKE == con(dContraMetric2DB(iA, iB), dDaKE, dDbKE)
        dInvJacobian == RDiv(One, dJacobian(<<iA, iB, k>>))
        dInvJacobian2D == RDiv(One, dJacobian2D(iA, iB))
        dInvDeltaZ == RDiv(One, RSub(dataZi(iA, iB, k + 1), dataZi(iA, iB, k)))
        dTotalHorizFluxDiv ==
            RMul(dInvJacobian, RAdd(dDaMassFluxAlpha, dDbMassFluxBeta))
        dDzAlphaMomentumFluxS ==
            RMul(dInvDeltaZ, RSub(s.m_dSDotUaREdge[<<i, j, k + 1>>],
                                  s.m_dSDotUaREdge[q]))
        dDzBetaMomentumFluxS ==
            RMul(dInvDeltaZ, RSub(s.m_dSDotUbREdge[<<i, j, k + 1>>],
                                  s.m_dSDotUbREdge[q]))
        dAbsVorticity ==
            RAdd(dCoriolisF(iA, iB), RMul(dInvJacobian2D, RSub(dDaCovUb, dDbCovUa)))
        dVorticityAlpha ==
            RNeg(RMul(RMul(dAbsVorticity, dInvJacobian2D), s.m_d2DCovUb[q]))
        dVorticityBeta ==
            RMul(RMul(dAbsVorticity, dInvJacobian2D), s.m_d2DCovUa[q])
        momentum(dConDP, dConDKE, dVorticity, dConU, dDzFlux) ==
            RMul(dDeltaT,
                 RSub(RSub(RSub(RNeg(dConDP),
                                RMul(rho, RAdd(dConDKE, dVorticity))),
                           RMul(dTotalHorizFluxDiv, dConU)),
                      dDzFlux))
    IN  [c \in NodeComponents |->
            IF c = UIx
            THEN momentum(dConDaP, dConDaKE, dVorticityAlpha, s.m_d2DConUa[q],
                          dDzAlphaMomentumFluxS)
            ELSE IF c = VIx
            THEN momentum(dConDbP, dConDbKE, dVorticityBeta, s.m_d2DConUb[q],
                          dDzBetaMomentumFluxS)
            ELSE IF c = RIx
            THEN RMul(RNeg(dDeltaT), dTotalHorizFluxDiv)
            ELSE RMul(RMul(RNeg(dDeltaT), dInvJacobian),
                      RAdd(dDaPressureFluxAlpha, dDbPressureFluxBeta))]

\* the tendency of W at the inner interface q = <<i, j, k>> of element e
ExplicitREdgeTendency(s, dDeltaT, e, q) ==
    LET EA == ElementStart(e[1])
        EB == ElementStart(e[2])
        i == q[1]
        j == q[2]
        k == q[3]
        dInvJacobianREdge == RDiv(One, dJacobianREdge(EA + i, EB + j, k))
        dDaVerticalMomentumFluxAlpha ==
            RMul(RNeg(RSum([t \in Order |->
                    RMul(s.m_dAlphaVerticalMomentumFluxREdge[<<t, j, k>>],
                         dStiffness1D(i, t))], Order)),
                 dInvElementDeltaA)
        dDbVerticalMomentumFluxBeta ==
            RMul(RNeg(RSum([t \in Order |->
                    RMul(s.m_dBetaVerticalMomentumFluxREdge[<<i, t, k>>],
                         dStiffness1D(j, t))], Order)),
                 dInvElementDeltaB)
        dInvDeltaZ ==
            RDiv(One, RSub(dataZn(EA + i, EB + j, k), dataZn(EA + i, EB + j, k - 1)))
        dDzVerticalMomentumFluxW ==
            RMul(dInvDeltaZ, RSub(s.m_dSDotWNode[q], s.m_dSDotWNode[<<i, j, k - 1>>]))
    IN  RMul(RNeg(dDeltaT),
             RAdd(RMul(dInvJacobianREdge,
                       RAdd(dDaVerticalMomentumFluxAlpha, dDbVerticalMomentumFluxBeta)),
                  dDzVerticalMomentumFluxW))

\* mutant: the tendencies are added to the initial dataset
ExplicitUpdate_IntoInitial(s, d, dP, iDataInitial, iDataUpdate, dDeltaT, e) ==
    LET EA == ElementStart(e[1])
        EB == ElementStart(e[2])
        loc(pt) == <<pt[1] - EA, pt[2] - EB, pt[3]>>
        inner(pt) == pt[3] >= 1 /\ pt[3] < nRElements
        node == Stored([q \in NodeColumnPts |->
                    ExplicitNodeTendency(s, d, dP, iDataInitial, dDeltaT, e, q)])
    IN  [d EXCEPT ![iDataInitial].state = [c \in Components |-> [pt \in PtsOf(c) |->
            IF ~InElement(pt, e) THEN @[c][pt]
            ELSE IF c = WIx
            THEN (IF inner(pt)
                  THEN RAdd(@[c][pt], ExplicitREdgeTendency(s, dDeltaT, e, loc(pt)))
                  ELSE @[c][pt])
            ELSE RAdd(@[c][pt], node[loc(pt)][c])]]]

\* the data after the nodal updates and the interface updates of element e,
\* from the auxiliary buffers s: the tendencies are added to the update dataset
ExplicitUpdate(s, d, dP, iDataInitial, iDataUpdate, dDeltaT, e) ==
    LET EA == ElementStart(e[1])
        EB == ElementStart(e[2])
        loc(pt) == <<pt[1] - EA, pt[2] - EB, pt[3]>>
        inner(pt) == pt[3] >= 1 /\ pt[3] < nRElements
        node == Stored([q \in NodeColumnPts |->
                    ExplicitNodeTendency(s, d, dP, iDataInitial, dDeltaT, e, q)])
    IN  [d EXCEPT ![iDataUpdate].state = [c \in Components |-> [pt \in PtsOf(c) |->
            IF ~InElement(pt, e) THEN @[c][pt]
            ELSE IF c = WIx
            THEN (IF inner(pt)
                  THEN RAdd(@[c][pt], ExplicitREdgeTendency(s, dDeltaT, e, loc(pt)))
                  ELSE @[c][pt])
            ELSE RAdd(@[c][pt], node[loc(pt)][c])]]]


\* StepExplicit on an initialized object
StepExplicit_Call ==
    /\ pc = "idle"
    /\ CanCall("StepExplicit")
    /\ \E iDataInitial \in DataIx, iDataUpdate \in DataIx, dt \in DeltaTValues :
        /\ args' = StageArgs(iDataInitial, iDataUpdate, dt)
        /\ calls' = Append(calls, StageCall("StepExplicit", iDataInitial, iDataUpdate))
    /\ entry' = data
    /\ pc' = "explicitPressure"
    /\ UNCHANGED <<setup, data, exception, scratch>>

\* pGrid->ComputePressure(iDataInitial)
Explicit_Pressure ==
    /\ Goto("explicitPressure", "explicitInterfaces")
    /\ dataPressure' = ComputePressure(data, args.iDataInitial)
    /\ elem' = FirstElement
    /\ Logged(<<"ComputePressure", args.iDataInitial>>)
    /\ UNCHANGED <<setup, data, args, exception, entry, m_dA, m_dB,
                   m_dC, m_dD, m_nInfo, auxiliary>>

\* the interface loop and the level loop of the element
Explicit_Interfaces ==
    /\ Goto("explicitInterfaces", "explicitUpdate")
    /\ data' = ExplicitInterfaces(data, args.iDataInitial, elem)
    /\ auxiliary' = ExplicitScratch(auxiliary, data', args.iDataInitial, elem)
    /\ UNCHANGED <<setup, args, exception, calls, entry, m_dA, m_dB, m_dC,
                   m_dD, m_nInfo, dataPressure, elem>>

\* mutant: the direct stiffness summation at the end of the stage is active
Explicit_Update_WithDSS ==
    /\ pc = "explicitUpdate"
    /\ LET u == ExplicitUpdate(auxiliary, data, dataPressure, args.iDataInitial,
                               args.iDataUpdate, args.dDeltaT, elem)
           dss == <<"ApplyDSS", args.iDataUpdate, "State">>
       IN  IF elem = LastElement
           THEN /\ data' = ApplyDSS(u, args.iDataUpdate, "State")
                /\ calls' = [calls EXCEPT ![Len(calls)][4] = @ \o <<<<"Sweep", elem>>, dss>>]
                /\ pc' = "idle"
                /\ elem' = NoElement
           ELSE /\ data' = u
                /\ Logged(<<"Sweep", elem>>)
                /\ pc' = "explicitInterfaces"
                /\ elem' = NextElement(elem)
    /\ UNCHANGED <<setup, args, exception, entry, m_dA, m_dB, m_dC,
                   m_dD, m_nInfo, auxiliary, dataPressure>>

\* the direct stiffness summation at the end of the stage is commented out
Explicit_Update ==
    /\ pc = "explicitUpdate"
    /\ data' = ExplicitUpdate(auxiliary, data, dataPressure, args.iDataInitial,
                              args.iDataUpdate, args.dDeltaT, elem)
    /\ IF elem = LastElement
       THEN pc' = "idle" /\ elem' = NoElement
       ELSE pc' = "explicitInterfaces" /\ elem' = NextElement(elem)
    /\ Logged(<<"Sweep", elem>>)
    /\ UNCHANGED <<setup, args, exception, entry, m_dA, m_dB, m_dC,
                   m_dD, m_nInfo, auxiliary, dataPressure>>

\* the first stores of the interpolation loop: element (0,0), i = j = 0, k = 1
FirstInterfaceStores(d, iDataInitial) ==
    LET full == ExplicitInterfaces(d, iDataInitial, FirstElement)
        first == <<ElementStart(0), ElementStart(0), 1>>
    IN  [d EXCEPT ![iDataInitial].stateREdge =
            [c \in NodeComponents |-> [pt \in REdgePts |->
                IF pt = first /\ nRElements >= 2
                THEN full[iDataInitial].stateREdge[c][pt] ELSE @[c][pt]]]]

\* StepExplicit on an object whose Initialize was not called or has failed.
\* The function tests neither the grid type nor the build flag. With a grid
\* that is not a GridGLL the dynamic_cast gives NULL, which is dereferenced
\* for GetRElements; with a GridGLL the pressure is computed and the first
\* iteration stores into the interface arrays of the initial dataset and then
\* into a buffer that was never allocated. Both are undefined behaviour; the
\* process is taken to stop there, and no exception is raised
StepExplicit_Uninitialized ==
    /\ \/ pc = "constructed"
       \/ pc = "failed" /\ m_dA = Unallocated
    /\ CanCall("StepExplicit")
    /\ \E iDataInitial \in DataIx, iDataUpdate \in DataIx, dt \in DeltaTValues :
        /\ args' = StageArgs(iDataInitial, iDataUpdate, dt)
        /\ calls' = Append(calls, StageCall("StepExplicit", iDataInitial, iDataUpdate))
        /\ IF fGridIsGLL
           THEN /\ dataPressure' = ComputePressure(data, iDataInitial)
                /\ data' = FirstInterfaceStores(data, iDataInitial)
           ELSE UNCHANGED <<data, dataPressure>>
    /\ entry' = data
    /\ pc' = "crashed"
    /\ UNCHANGED <<setup, exception, m_dA, m_dB, m_dC, m_dD, m_nInfo, auxiliary, elem>>

-----------------------------------------------------------------------------
NextStages ==
    \/ Initialize
    \/ StepExplicit_Uninitialized
    \/ StepExplicit_Call
    \/ Explicit_Pressure
    \/ Explicit_Interfaces
    \/ Explicit_Update
    \/ StepImplicit_Call
    \/ Implicit_Pressure
    \/ Implicit_Fluxes
    \/ Implicit_Fill
    \/ Implicit_Solve
    \/ Implicit_Check
    \/ Implicit_Update
    \/ Implicit_Boundary
    \/ Implicit_DSS

SpecStages == InitStages /\ [][NextStages]_vars


-----------------------------------------------------------------------------
(* Claims about the footprint of the stages *)

Elements == ElemsA \X ElemsB

\* the steps taken inside the element loop of a stage
ElementStep ==
    pc \in {"explicitInterfaces", "explicitUpdate", "implicitPressure",
            "implicitFluxes", "implicitFill", "implicitSolve", "implicitCheck",
            "implicitUpdate", "implicitBoundary"}

\* the step leaves every entry of the state, tracer and pressure arrays
\* outside the p x p block of element e as it was
OnlyElementWritten(e) ==
    /\ \A pt \in NodePts : ~InElement(pt, e) => dataPressure'[pt] = dataPressure[pt]
    /\ \A ix \in DataIx :
        /\ \A c \in Components : \A pt \in PtsOf(c) :
            ~InElement(pt, e) => data'[ix].state[c][pt] = data[ix].state[c][pt]
        /\ \A c \in NodeComponents : \A pt \in REdgePts :
            ~InElement(pt, e) =>
                data'[ix].stateREdge[c][pt] = data[ix].stateREdge[c][pt]
        /\ \A c \in Tracers : \A pt \in NodePts :
            ~InElement(pt, e) => data'[ix].tracers[c][pt] = data[ix].tracers[c][pt]

\* dataset ix of d and of r agree at every halo index
HaloKept(d, r, ix) ==
    /\ \A c \in Components : \A pt \in PtsOf(c) :
        ~IsInterior(pt) => r[ix].state[c][pt] = d[ix].state[c][pt]
    /\ \A c \in Tracers : \A pt \in NodePts :
        ~IsInterior(pt) => r[ix].tracers[c][pt] = d[ix].tracers[c][pt]

\* the patch-wide sweeps of the two hyperdiffusion operators and of the
\* tracer filter, applied to the current data, store at no halo index
SweepsKeepHalo ==
    /\ HaloKept(data, ApplyScalarHyperdiffusion(data, 0, 1, Half, One, FALSE, -1, FALSE), 1)
    /\ HaloKept(data, ApplyVectorHyperdiffusion(data, 0, 0, 1, Half, One, One, FALSE), 1)
    /\ HaloKept(data, FilterNegativeTracers(data, TRUE, dElementAreaNode, 1), 1)

DistinctStage ==
    /\ Len(calls) > 0
    /\ args.iDataInitial # args.iDataUpdate

\* the interface slots of the components kept on nodes that the last stage
\* called may overwrite in its initial dataset
AuxiliarySlots ==
    IF calls[Len(calls)][1] = "StepExplicit" THEN {RIx, UIx, VIx, PIx} ELSE {RIx, PIx}

InnerInterface(pt) == IsInterior(pt) /\ pt[3] >= 1 /\ pt[3] < nRElements

\* the statement as the specification makes it: with distinct datasets a
\* completed stage leaves every component of the initial dataset as it was,
\* on nodes and on interfaces
C15_Original ==
    (DistinctStage /\ pc = "idle") =>
        /\ data[args.iDataInitial].state = entry[args.iDataInitial].state
        /\ data[args.iDataInitial].stateREdge = entry[args.iDataInitial].stateREdge

\* C15 (amended): during and after StepExplicit and StepImplicit with
\* iDataInitial # iDataUpdate, every component of the initial state keeps its
\* value at its own location (U, V, P, R on nodes, W on interfaces), and so do
\* the tracers; the interface slots of the components kept on nodes are
\* overwritten in the initial dataset, but only on the inner interfaces
\* k = 1 .. nRElements - 1 of element nodes: those of R, U, V and P by
\* StepExplicit, those of R and P by StepImplicit
C15_InitialNodesKept ==
    DistinctStage =>
        /\ data[args.iDataInitial].state = entry[args.iDataInitial].state
        /\ data[args.iDataInitial].tracers = entry[args.iDataInitial].tracers
        /\ \A c \in NodeComponents : \A pt \in REdgePts :
            (c \notin AuxiliarySlots \/ ~InnerInterface(pt)) =>
                data[args.iDataInitial].stateREdge[c][pt] =
                    entry[args.iDataInitial].stateREdge[c][pt]

\* a completed explicit stage with distinct datasets that has changed the
\* update state and the interface slots of its initial dataset
C15_Witness ==
    /\ DistinctStage
    /\ Completed("StepExplicit")
    /\ data[args.iDataUpdate].state # entry[args.iDataUpdate].state
    /\ data[args.iDataInitial].stateREdge # entry[args.iDataInitial].stateREdge


-----------------------------------------------------------------------------
(* Claims about unsupported setups *)

InvalidGrid == "Grid must be of type GridGLL"
ConfigurationUnsupported == "Prognostic covariant velocities not supported"

Supported == fPrognosticContravariantMomenta /\ fGridIsGLL

InStepExplicit == pc \in {"explicitPressure", "explicitInterfaces", "explicitUpdate"}

\* the step is the entry into StepExplicit
EntersStepExplicit ==
    /\ Len(calls') = Len(calls) + 1
    /\ calls'[Len(calls')][1] = "StepExplicit"

-----------------------------------------------------------------------------
(* HighSpeedDynamics::ApplyRayleighFriction *)

nRayleighCycles == 10

\* nEffectiveC and the number of its entries that are used
EffectiveComponents(eqSet, cartXZ) ==
    LET unset == [nc \in Components |-> -1]
    IN  IF eqSet = "PrimitiveNonhydrostaticEquations" /\ ~cartXZ
        THEN [table |-> [unset EXCEPT ![0] = 0, ![1] = 1, ![2] = 2, ![3] = 3,
                                       ![nComponents - 1] = 0],
              count |-> nComponents - 1]
        ELSE IF eqSet = "PrimitiveNonhydrostaticEquations" /\ cartXZ
        THEN [table |-> [unset EXCEPT ![0] = 0, ![1] = 2, ![2] = 3,
                                       ![nComponents - 2] = 0,
                                       ![nComponents - 1] = 0],
              count |-> nComponents - 2]
        ELSE [table |-> [nc \in Components |-> nc], count |-> nComponents]

\* the components the loops over c < nComponents visit
RelaxedComponents(eqSet, cartXZ) ==
    LET e == EffectiveComponents(eqSet, cartXZ)
    IN  {e.table[c] : c \in 0 .. (e.count - 1)}

\* si further sub-cycles of the backward Euler relaxation towards ref
RECURSIVE RayleighCycles(_, _, _, _)
RayleighCycles(x, ref, dNuNode, si) ==
    IF si = 0 THEN x
    ELSE RayleighCycles(RAdd(RMul(dNuNode, x), RMul(RSub(One, dNuNode), ref)),
                        ref, dNuNode, si - 1)

\* one value of a relaxed component at a point of strength dNu
RayleighPoint(x, ref, dNu, dDeltaT) ==
    LET dRayleighFactor == RDiv(One, Rat(nRayleighCycles, 1))
        dNuNode == RDiv(One, RAdd(One, RMul(RMul(dRayleighFactor, dDeltaT), dNu)))
    IN  IF RIsZero(dNu) THEN x
        ELSE RayleighCycles(x, ref, dNuNode, nRayleighCycles)

\* mutant: the interface components are relaxed with the strength on nodes
RayleighStrength_NodeOnly(c, sNode, sREdge, pt) ==
    sNode[<<pt[1], pt[2], IF pt[3] < nRElements THEN pt[3] ELSE nRElements - 1>>]

\* the strength array of the location of component c
RayleighStrength(c, sNode, sREdge, pt) ==
    IF VarLocation(c) = "Node" THEN sNode[pt] ELSE sREdge[pt]

\* mutant: every component is relaxed
ApplyRayleighFriction_All(d, iDataUpdate, dDeltaT, eqSet, cartXZ, sNode, sREdge) ==
    [d EXCEPT ![iDataUpdate].state =
        [c \in Components |-> [pt \in PtsOf(c) |->
            IF IsInterior(pt)
            THEN RayleighPoint(@[c][pt], dataRef[c][pt],
                               RayleighStrength(c, sNode, sREdge, pt), dDeltaT)
            ELSE @[c][pt]]]]

\* the data after the call
ApplyRayleighFriction(d, iDataUpdate, dDeltaT, eqSet, cartXZ, sNode, sREdge) ==
    [d EXCEPT ![iDataUpdate].state =
        [c \in Components |-> [pt \in PtsOf(c) |->
            IF c \in RelaxedComponents(eqSet, cartXZ) /\ IsInterior(pt)
            THEN RayleighPoint(@[c][pt], dataRef[c][pt],
                               RayleighStrength(c, sNode, sREdge, pt), dDeltaT)
            ELSE @[c][pt]]]]

\* Rayleigh layers: none, a sponge over the upper levels, and a strength that
\* changes from column to column
RayleighProfile(n, pts) ==
    [pt \in pts |->
        IF n = 0 THEN Zero
        ELSE IF n = 1 THEN (IF pt[3] >= 1 THEN Rat(20, 1) ELSE Zero)
        ELSE (IF (pt[1] + pt[3]) % 2 = 0 THEN Rat(60, 1) ELSE Zero)]

RayleighProfiles == 0 .. 2

EquationSets == {"PrimitiveNonhydrostaticEquations", "ShallowWaterEquations"}

InitRayleigh ==
    /\ m_nHyperviscosityOrder = 0
    /\ m_dNuScalar = Zero
    /\ m_dNuDiv = Zero
    /\ m_dNuVort = Zero
    /\ fFilterTracers = TRUE
    /\ dElementAreaNode = UniformArea
    /\ nActivePatches = 1
    /\ fPrognosticContravariantMomenta = TRUE
    /\ fGridIsGLL = TRUE
    /\ nEqSet \in EquationSets
    /\ fCartXZ \in BOOLEAN
    /\ \E n \in RayleighProfiles : dataRayleighStrengthNode = RayleighProfile(n, NodePts)
    /\ \E n \in RayleighProfiles : dataRayleighStrengthREdge = RayleighProfile(n, REdgePts)
    /\ m_dA = Allocated
    /\ m_dB = Allocated
    /\ m_dC = Allocated
    /\ m_dD = Allocated
    /\ m_nInfo = [q \in Columns |-> 0]
    /\ auxiliary = AllocatedAuxiliary
    /\ dataPressure = [pt \in NodePts |-> Zero]
    /\ elem = NoElement
    /\ data = InitialData
    /\ pc = "idle"
    /\ args = NoArgs
    /\ exception = "none"
    /\ calls = <<>>
    /\ entry = data
    /\ OutputAtRest

ApplyRayleighFriction_Call ==
    /\ pc = "idle"
    /\ \E ix \in DataIx, dt \in DeltaTValues :
        /\ args' = [NoArgs EXCEPT !.iDataUpdate = ix, !.dDeltaT = dt]
        /\ data' = ApplyRayleighFriction(data, ix, dt, nEqSet, fCartXZ,
                                         dataRayleighStrengthNode,
                                         dataRayleighStrengthREdge)
    /\ entry' = data
    /\ pc' = "relaxed"
    /\ UNCHANGED <<config, exception, calls>>

NextRayleigh == ApplyRayleighFriction_Call

SpecRayleigh == InitRayleigh /\ [][NextRayleigh]_vars


-----------------------------------------------------------------------------
(* Claims about ApplyRayleighFriction, checked under SpecRayleigh *)

\* the strength ApplyRayleighFriction finds at a point of component c
StrengthAt(c, pt) ==
    IF VarLocation(c) = "Node" THEN dataRayleighStrengthNode[pt]
    ELSE dataRayleighStrengthREdge[pt]

\* C17: ApplyRayleighFriction is the identity wherever the Rayleigh strength
\* is zero: at every node and every interface whose strength entry is 0 every
\* component of the update state keeps its value, and with zero strength
\* everywhere the whole update state is unchanged
C17_ZeroStrengthIdentity ==
    pc = "relaxed" =>
        /\ \A c \in Components : \A pt \in PtsOf(c) :
            StrengthAt(c, pt) = Zero =>
                data[args.iDataUpdate].state[c][pt] =
                    entry[args.iDataUpdate].state[c][pt]
        /\ (/\ \A pt \in NodePts : dataRayleighStrengthNode[pt] = Zero
            /\ \A pt \in REdgePts : dataRayleighStrengthREdge[pt] = Zero)
                => data = entry

\* a call that has relaxed a node component at some nodes while the strength
\* on the interfaces is zero in part
C17_Witness ==
    /\ pc = "relaxed"
    /\ data # entry
    /\ \E pt \in REdgePts :
        /\ IsInterior(pt)
        /\ dataRayleighStrengthREdge[pt] = Zero
        /\ dataRayleighStrengthNode[<<pt[1], pt[2], 0>>] # Zero
        /\ entry[args.iDataUpdate].state[WIx][pt] # dataRef[WIx][pt]

\* the components the specification selects for an equation set
SelectedComponents ==
    IF nEqSet = "PrimitiveNonhydrostaticEquations"
    THEN (IF fCartXZ THEN {0, 2, 3} ELSE {0, 1, 2, 3})
    ELSE Components

\* mu^10 x + (1 - mu^10) ref with mu = 1 / (1 + dt nu / 10), for mu = 1 / m
Relaxed(x, ref, nu, dt) ==
    LET mu == RDiv(One, RAdd(One, RDiv(RMul(dt, nu), Rat(10, 1))))
        mu2 == RMul(mu, mu)
        mu4 == RMul(mu2, mu2)
        mu10 == RMul(RMul(mu4, mu4), mu2)
    IN  RAdd(RMul(mu10, x), RMul(RSub(One, mu10), ref))

\* C18: ApplyRayleighFriction relaxes exactly the components {0,1,2,3} for
\* the 3-D primitive non-hydrostatic set, {0,2,3} for the Cartesian-XZ one and
\* all components otherwise; a component outside the set (density for the
\* primitive sets) is unchanged, and a selected component is relaxed at its
\* own location - nodes or interfaces - with the strength of that location
C18_ComponentSelection ==
    pc = "relaxed" =>
        \A c \in Components : \A pt \in PtsOf(c) :
            data[args.iDataUpdate].state[c][pt] =
                IF c \in SelectedComponents /\ IsInterior(pt)
                THEN Relaxed(entry[args.iDataUpdate].state[c][pt], dataRef[c][pt],
                             StrengthAt(c, pt), args.dDeltaT)
                ELSE entry[args.iDataUpdate].state[c][pt]

\* a call for the 3-D primitive set that has relaxed W on an interface with a
\* strength that differs from the strength at the nodes of the column, and
\* that met a density differing from its reference under a nonzero strength
C18_Witness ==
    /\ pc = "relaxed"
    /\ nEqSet = "PrimitiveNonhydrostaticEquations"
    /\ ~fCartXZ
    /\ \E pt \in NodePts :
        /\ IsInterior(pt)
        /\ dataRayleighStrengthNode[pt] # Zero
        /\ dataRayleighStrengthREdge[pt] # dataRayleighStrengthNode[pt]
        /\ dataRayleighStrengthREdge[pt] # Zero
        /\ data[args.iDataUpdate].state[WIx][pt] # entry[args.iDataUpdate].state[WIx][pt]
        /\ entry[args.iDataUpdate].state[RIx][pt] # dataRef[RIx][pt]


-----------------------------------------------------------------------------
(* Calls of ApplyScalarHyperdiffusion, on a process with or without a patch *)

\* a state whose fields are constant over each element and level, with a
\* value that changes from element to element, from level to level and from
\* component to component
ElementwiseConstantData ==
    [ix \in DataIx |->
        [state |-> [c \in Components |-> [pt \in PtsOf(c) |->
                        Rat(ElemOf(pt[1]) + 3 * ElemOf(pt[2]) + 2 * pt[3] + c + ix - 3, 2)]],
         stateREdge |-> InitialData[ix].stateREdge,
         tracers |-> [c \in Tracers |-> [pt \in NodePts |->
                        Rat(ElemOf(pt[1]) + 3 * ElemOf(pt[2]) - pt[3] + ix, 1)]]]]

\* component arguments: one below -1, "all", each component, one beyond
ComponentArgs == (-2) .. nComponents

ScalarDeltaTValues == {Half, Rat(3, 1)}

ScalarArgs(iDataInitial, iDataUpdate, dDeltaT, dNu, iComponent, fRemoveRefState) ==
    [iDataInitial |-> iDataInitial, iDataUpdate |-> iDataUpdate,
     iDataWorking |-> -1, dDeltaT |-> dDeltaT, dNu |-> dNu,
     iComponent |-> iComponent, fRemoveRefState |-> fRemoveRefState]

InitScalar ==
    /\ m_nHyperviscosityOrder = 0
    /\ m_dNuScalar = Zero
    /\ m_dNuDiv = Zero
    /\ m_dNuVort = Zero
    /\ fFilterTracers = TRUE
    /\ dElementAreaNode = UniformArea
    /\ nActivePatches \in {0, 1}
    /\ fPrognosticContravariantMomenta = TRUE
    /\ fGridIsGLL = TRUE
    /\ nEqSet = "PrimitiveNonhydrostaticEquations"
    /\ fCartXZ = FALSE
    /\ dataRayleighStrengthNode = [pt \in NodePts |-> Zero]
    /\ dataRayleighStrengthREdge = [pt \in REdgePts |-> Zero]
    /\ m_dA = Allocated
    /\ m_dB = Allocated
    /\ m_dC = Allocated
    /\ m_dD = Allocated
    /\ m_nInfo = [q \in Columns |-> 0]
    /\ auxiliary = AllocatedAuxiliary
    /\ dataPressure = [pt \in NodePts |-> Zero]
    /\ elem = NoElement
    /\ data \in {InitialData, ElementwiseConstantData}
    /\ pc = "idle"
    /\ args = NoArgs
    /\ exception = "none"
    /\ calls = <<>>
    /\ entry = data
    /\ OutputAtRest

\* mutant: a component index beyond the equation set is taken as "all"
ScalarOutcome_Lenient(d, a) ==
    IF a.iComponent < -1
    THEN [pc |-> "failed", exception |-> "Invalid component index", data |-> d]
    ELSE IF nActivePatches = 0
    THEN [pc |-> "diffused", exception |-> "none", data |-> d]
    ELSE [pc |-> "diffused", exception |-> "none",
          data |-> ApplyScalarHyperdiffusion(d, a.iDataInitial, a.iDataUpdate,
                        a.dDeltaT, a.dNu, FALSE,
                        IF a.iComponent >= nComponents THEN -1 ELSE a.iComponent,
                        a.fRemoveRefState)]

\* the outcome of the call with arguments a on data d: the test of
\* iComponent < -1 precedes the loop over the active patches, the test of
\* iComponent >= GetComponents() is made inside it, before the first store
ScalarOutcome(d, a) ==
    IF a.iComponent < -1
    THEN [pc |-> "failed", exception |-> "Invalid component index", data |-> d]
    ELSE IF nActivePatches = 0
    THEN [pc |-> "diffused", exception |-> "none", data |-> d]
    ELSE IF a.iComponent # -1 /\ a.iComponent >= nComponents
    THEN [pc |-> "failed", exception |-> "Invalid component index", data |-> d]
    ELSE [pc |-> "diffused", exception |-> "none",
          data |-> ApplyScalarHyperdiffusion(d, a.iDataInitial, a.iDataUpdate,
                        a.dDeltaT, a.dNu, FALSE, a.iComponent, a.fRemoveRefState)]

ApplyScalarHyperdiffusion_Call ==
    /\ pc = "idle"
    /\ \E iDataInitial \in DataIx, iDataUpdate \in DataIx, dt \in ScalarDeltaTValues,
          nu \in NuValues, iComponent \in ComponentArgs, fRemoveRefState \in BOOLEAN :
        LET a == ScalarArgs(iDataInitial, iDataUpdate, dt, nu, iComponent,
                            fRemoveRefState)
            r == ScalarOutcome(data, a)
        IN  /\ args' = a
            /\ data' = r.data
            /\ pc' = r.pc
            /\ exception' = r.exception
    /\ entry' = data
    /\ UNCHANGED <<config, calls>>

\* a call of ApplyVectorHyperdiffusion: the body is a loop over the active
\* patches
ApplyVectorHyperdiffusion_Call ==
    /\ pc = "idle"
    /\ \E iDataInitial \in DataIx, iDataWorking \in DataIx, iDataUpdate \in DataIx,
          nuDiv \in NuValues, nuVort \in NuValues :
        /\ args' = [iDataInitial |-> iDataInitial, iDataUpdate |-> iDataUpdate,
                    iDataWorking |-> iDataWorking, dDeltaT |-> Half,
                    dNuDiv |-> nuDiv, dNuVort |-> nuVort]
        /\ data' = IF nActivePatches = 0 THEN data
                   ELSE ApplyVectorHyperdiffusion(data, iDataInitial, iDataWorking,
                            iDataUpdate, Half, nuDiv, nuVort, FALSE)
    /\ pc' = "vectorDiffused"
    /\ entry' = data
    /\ UNCHANGED <<config, calls, exception>>

NextScalar == ApplyScalarHyperdiffusion_Call \/ ApplyVectorHyperdiffusion_Call

SpecScalar == InitScalar /\ [][NextScalar]_vars


-----------------------------------------------------------------------------
(* Claims about one call of ApplyScalarHyperdiffusion *)

ScalarReturned == pc = "diffused"
ScalarCalled == pc \in {"diffused", "failed"}

InvalidComponent == "Invalid component index"

\* C16 as stated: a call with iComponent < -1, or with an iComponent other
\* than -1 that is >= the component count, fails with InvalidComponent and
\* leaves every dataset unmodified, whatever the number of active patches.
C16_InvalidComponentFails ==
    (ScalarCalled /\ (args.iComponent < -1 \/ args.iComponent >= nComponents)) =>
        (exception = InvalidComponent /\ data = entry)

\* the call C16 fails on: a component index beyond the equation set, on a
\* process without an active patch, returns normally
C16_SilentReturn ==
    /\ ScalarReturned
    /\ nActivePatches = 0
    /\ args.iComponent >= nComponents
    /\ exception = "none"
    /\ data = entry

\* the differentiation matrix maps constants to zero
DxAnnihilatesConstants ==
    \A i \in Order : RIsZero(RSum([s \in Order |-> dDxBasis1D(s, i)], Order))

\* a field whose values are finite and equal over each element and level
ConstantOverElements(f) ==
    \A pt \in DOMAIN f : \A qt \in DOMAIN f :
        (IsInterior(pt) /\ IsInterior(qt)) =>
            /\ IsFinite(f[pt])
            /\ (ElemOf(pt[1]) = ElemOf(qt[1]) /\ ElemOf(pt[2]) = ElemOf(qt[2])
                    /\ pt[3] = qt[3]) => f[pt] = f[qt]

\* the field a call diffuses: the initial field, less the reference when
\* reference removal is requested (the reference of a tracer is not a value)
DiffusedField(init, ref, fRemoveRefState) ==
    [pt \in DOMAIN init |->
        IF fRemoveRefState THEN RSub(init[pt], ref[pt]) ELSE init[pt]]

DiffusedFieldsConstant(d, a) ==
    /\ \A c \in ScalarComponents(a.iComponent) \cap Components :
        ConstantOverElements(
            DiffusedField(d[a.iDataInitial].state[c], dataRef[c], a.fRemoveRefState))
    /\ \A c \in ScalarTracers(a.iComponent) :
        ConstantOverElements(
            DiffusedField(d[a.iDataInitial].tracers[c], [pt \in NodePts |-> NaN],
                          a.fRemoveRefState))

-----------------------------------------------------------------------------
(* Claims about the direct stiffness summation of the stages *)

\* the stage call calls[n] has returned normally: every call but the last
\* has (nothing is called after a failure of an initialized object), and the
\* last has when the object is idle again
CallCompleted(n) == n < Len(calls) \/ pc = "idle"

\* the positions of the ApplyDSS events in a log
DSSEvents(log) == {m \in 1 .. Len(log) : log[m][1] = "ApplyDSS"}

AllSweptBefore(log, m) ==
    \A e \in Elements : \E l \in 1 .. (m - 1) : log[l] = <<"Sweep", e>>

\* C21: every StepImplicit call that completes has invoked ApplyDSS exactly
\* once, on the state of its update dataset, as its last operation and after
\* the stores of every element are complete; a StepImplicit call that has
\* not completed has not invoked it; no StepExplicit call invokes it.
C21_DSSPlacement ==
    \A n \in 1 .. Len(calls) :
        LET c == calls[n]
            log == c[4]
        IN  /\ c[1] = "StepExplicit" => DSSEvents(log) = {}
            /\ (c[1] = "StepImplicit" /\ ~CallCompleted(n)) => DSSEvents(log) = {}
            /\ (c[1] = "StepImplicit" /\ CallCompleted(n)) =>
                /\ DSSEvents(log) = {Len(log)}
                /\ log[Len(log)] = <<"ApplyDSS", c[3], "State">>
                /\ AllSweptBefore(log, Len(log))

\* a completed StepExplicit without any ApplyDSS followed by a completed
\* StepImplicit whose log ends with its only ApplyDSS, after both sweeps
C21_Witness ==
    /\ pc = "idle"
    /\ Len(calls) = 2
    /\ calls[1][1] = "StepExplicit"
    /\ Len(calls[1][4]) = 1 + Cardinality(Elements)
    /\ DSSEvents(calls[1][4]) = {}
    /\ calls[2][1] = "StepImplicit"
    /\ Len(calls[2][4]) = Cardinality(Elements) + 1
    /\ calls[2][4][Len(calls[2][4])] = <<"ApplyDSS", calls[2][3], "State">>


-----------------------------------------------------------------------------
(* The stages as functions of what they start from: x is a record of the    *)
(* datasets, the pressure and the buffers, a the arguments of the call      *)

\* what a stage starts from in the current state
Current ==
    [data |-> data, dP |-> dataPressure, A |-> m_dA, B |-> m_dB, C |-> m_dC,
     D |-> m_dD, info |-> m_nInfo, aux |-> auxiliary, failed |-> FALSE]

\* the same datasets d with pressure dP and with buffers fresh from Initialize
Fresh(d, dP) ==
    [data |-> d, dP |-> dP, A |-> Allocated, B |-> Allocated, C |-> Allocated,
     D |-> Allocated, info |-> [q \in Columns |-> 0],
     aux |-> AllocatedAuxiliary, failed |-> FALSE]

\* one pass of the element loop body of StepImplicit, up to the throw
ImplicitSweep(x, a, e) ==
    LET dP == ImplicitPressure(x.dP, x.data, a.iDataInitial, e)
        T == DpDTheta(dP, x.data, a.iDataInitial, e)
        d1 == ImplicitFluxes(x.data, a.iDataInitial, e)
        f == ImplicitFill(x.A, x.B, x.C, x.D, T, dP, d1, a.iDataInitial,
                          a.dDeltaT, e)
        r == ImplicitSolve(f.A, f.B, f.C, f.D, x.info)
        failed == \E q \in Columns : r.info[q] # 0
    IN  [data |-> IF failed THEN d1
                  ELSE ImplicitBoundary(
                           ImplicitUpdate(d1, r.D, a.iDataInitial, a.iDataUpdate,
                                          a.dDeltaT, e),
                           a.iDataUpdate, e),
         dP |-> dP, A |-> r.A, B |-> r.B, C |-> r.C, D |-> r.D, info |-> r.info,
         aux |-> [x.aux EXCEPT !.m_dDpDTheta = T], failed |-> failed]

\* one pass of the element loop body of StepExplicit
ExplicitSweep(x, a, e) ==
    LET d1 == ExplicitInterfaces(x.data, a.iDataInitial, e)
        s == ExplicitScratch(x.aux, d1, a.iDataInitial, e)
    IN  [x EXCEPT !.data = ExplicitUpdate(s, d1, x.dP, a.iDataInitial,
                                          a.iDataUpdate, a.dDeltaT, e),
                  !.aux = s]

Sweep(stage, x, a, e) ==
    IF stage = "StepImplicit" THEN ImplicitSweep(x, a, e) ELSE ExplicitSweep(x, a, e)

\* the element loops from element e on, stopping at a failed solve
RECURSIVE SweepsFrom(_, _, _, _)
SweepsFrom(stage, x, a, e) ==
    LET y == Sweep(stage, x, a, e)
    IN  IF y.failed \/ e = LastElement THEN y
        ELSE SweepsFrom(stage, y, a, NextElement(e))

\* the whole stage
Stage(stage, x, a) ==
    IF stage = "StepImplicit"
    THEN LET y == SweepsFrom(stage, x, a, FirstElement)
         IN  IF y.failed THEN y
             ELSE [y EXCEPT !.data = ApplyDSS(y.data, a.iDataUpdate, "State")]
    ELSE SweepsFrom(stage, [x EXCEPT !.dP = ComputePressure(x.data, a.iDataInitial)],
                    a, FirstElement)

-----------------------------------------------------------------------------
(* Claims about the pressure the stages use *)

\* contents of the pressure cache at the entry of a stage: zero, values that
\* differ from node to node, and values that are no number
PressureContents ==
    {[pt \in NodePts |-> Zero],
     [pt \in NodePts |-> Rat(1 + pt[1] + 2 * pt[3], 2)],
     [pt \in NodePts |-> NaN]}

\* the stage called last has run to its end: it has returned or it has thrown
\* the failure of a solve
Ended(stage) ==
    /\ Len(calls) > 0
    /\ calls[Len(calls)][1] = stage
    /\ pc = "idle" \/ (pc = "failed" /\ exception = TridiagonalSingular)

\* C22: the datasets a stage ends with, and whether it fails, are those of the
\* stage started from the datasets at its entry with any contents of the
\* pressure cache; and the first thing a StepExplicit call does is to
\* recompute the cache from its initial dataset.
C22_PressureRefreshed ==
    /\ \A stage \in Stages :
        Ended(stage) =>
            \A P \in PressureContents :
                LET y == Stage(stage, Fresh(entry, P), args)
                IN  y.data = data /\ y.failed = (pc = "failed")
    /\ \A n \in 1 .. Len(calls) :
        (calls[n][1] = "StepExplicit" /\ Len(calls[n][4]) > 0) =>
            calls[n][4][1] = <<"ComputePressure", calls[n][2]>>

\* a StepImplicit call that has changed the data, entered with the pressure
\* an earlier StepExplicit call left from another dataset
C22_Witness ==
    /\ Ended("StepImplicit")
    /\ pc = "idle"
    /\ Len(calls) = 2
    /\ calls[1][1] = "StepExplicit"
    /\ calls[1][2] # calls[2][2]
    /\ ComputePressure(entry, calls[1][2]) # ComputePressure(entry, calls[2][2])
    /\ data # entry


-----------------------------------------------------------------------------
(* Claims about what the buffers carry from one element sweep to the next *)

\* the stage whose call is running
Running == calls[Len(calls)][1]

\* the sweep of element elem is about to start
SweepStart ==
    \/ pc = "implicitPressure" /\ Running = "StepImplicit"
    \/ pc = "explicitInterfaces" /\ Running = "StepExplicit"

\* buffers whose every entry holds v
Filled(v) ==
    [A |-> [q \in ColumnPts |-> v], B |-> [q \in ColumnPts |-> v],
     C |-> [q \in ColumnPts |-> v], D |-> [q \in ColumnPts |-> v],
     aux |-> [f \in DOMAIN AllocatedAuxiliary |->
                [q \in DOMAIN AllocatedAuxiliary[f] |-> v]]]

WithBuffers(x, s) ==
    [x EXCEPT !.A = s.A, !.B = s.B, !.C = s.C, !.D = s.D, !.aux = s.aux]

\* some contents of the buffers at the start of a sweep
BufferContents == {Filled(One), Filled(Rat(-3, 2))}

\* what a sweep leaves outside the buffers
Outcome(y) == <<y.data, y.failed>>

\* C23 as stated: whatever the buffers hold when the sweep of an element
\* starts, the sweep stores the same values, every entry it reads having been
\* written earlier in the same sweep.
C23_Original ==
    SweepStart =>
        \A s \in BufferContents :
            Outcome(Sweep(Running, WithBuffers(Current, s), args, elem))
                = Outcome(Sweep(Running, Current, args, elem))

\* C23: with the buffers as the earlier element sweeps and stage calls have
\* left them, the sweep of an element stores the values it stores with
\* buffers fresh from their allocation.
C23_ScratchNotCarried ==
    SweepStart =>
        Outcome(Sweep(Running, Current, args, elem))
            = Outcome(Sweep(Running, Fresh(data, dataPressure), args, elem))

\* the sweep of the second element of a StepImplicit call that follows a
\* StepExplicit call, about to start: the buffers of both stages hold what
\* the earlier sweeps left and the sweep will change the data
C23_Witness ==
    /\ pc = "implicitPressure"
    /\ Len(calls) = 2
    /\ calls[1][1] = "StepExplicit"
    /\ Running = "StepImplicit"
    /\ elem # FirstElement
    /\ m_dB # Allocated
    /\ m_dD # Allocated
    /\ auxiliary.m_dDpDTheta # AllocatedNode
    /\ auxiliary.m_dK2 # AllocatedNode
    /\ ~Sweep(Running, Current, args, elem).failed
    /\ Sweep(Running, Current, args, elem).data # data


-----------------------------------------------------------------------------
(* Claim about the fields the diffusion operators store into *)

VectorReturned == pc = "vectorDiffused"

\* the state components and the tracers a returned call may have stored into
MayStoreState(c) ==
    IF VectorReturned THEN c \in {UIx, VIx}
    ELSE IF args.iComponent = -1 THEN c >= 2
    ELSE c = args.iComponent

MayStoreTracer(c) == ScalarReturned /\ args.iComponent = -1

\* C25: a returned call of ApplyScalarHyperdiffusion with iComponent = -1 has
\* changed only the state components with index >= 2 and the tracers of the
\* update dataset, with iComponent = c >= 0 only state component c and no
\* tracer; a returned call of ApplyVectorHyperdiffusion has changed only the
\* components U and V of the update dataset.  Every other component (W on
\* interfaces under vector diffusion included), the interface arrays of the
\* node components and every other dataset are as at the entry of the call.
C25_FieldSelection ==
    (ScalarReturned \/ VectorReturned) =>
        /\ \A ix \in DataIx \ {args.iDataUpdate} : data[ix] = entry[ix]
        /\ \A c \in Components :
            ~MayStoreState(c) =>
                data[args.iDataUpdate].state[c] = entry[args.iDataUpdate].state[c]
        /\ \A c \in Tracers :
            ~MayStoreTracer(c) =>
                data[args.iDataUpdate].tracers[c] = entry[args.iDataUpdate].tracers[c]
        /\ data[args.iDataUpdate].stateREdge = entry[args.iDataUpdate].stateREdge

\* a call for all components that changed rho theta, W, the density and a
\* tracer, and left U and V as they were
C25_Witness ==
    /\ ScalarReturned
    /\ args.iComponent = -1
    /\ \A c \in {PIx, WIx, RIx} :
        data[args.iDataUpdate].state[c] # entry[args.iDataUpdate].state[c]
    /\ \A c \in Tracers :
        data[args.iDataUpdate].tracers[c] # entry[args.iDataUpdate].tracers[c]
    /\ \A c \in {UIx, VIx} :
        data[args.iDataUpdate].state[c] = entry[args.iDataUpdate].state[c]


-----------------------------------------------------------------------------
(* Claim about the column mass under the implicit stage *)

\* thickness of level k of column (iA, iB)
DeltaZ(iA, iB, k) == RSub(dataZi(iA, iB, k + 1), dataZi(iA, iB, k))

\* sum over the levels of density times thickness, in dataset ix of d
ColumnMass(d, ix, iA, iB) ==
    RSum([k \in LevelsNode |->
            RMul(d[ix].state[RIx][<<iA, iB, k>>], DeltaZ(iA, iB, k))],
         LevelsNode)

\* the columns of the patch, halo included
PatchColumns == IxA \X IxB

\* the columns of element e as <<iA, iB, i, j>>
SolvedColumns(e) ==
    {<<ElementStart(e[1]) + q[1], ElementStart(e[2]) + q[2], q[1], q[2]>> :
        q \in Columns}

\* the data invariant of the prognostic state holds on entry of the stage:
\* the density and rho theta of the initial dataset are positive on nodes,
\* and the initial vertical momentum and the density to update are numbers
RegularOnEntry ==
    /\ \A pt \in NodePts :
        /\ RGtZero(entry[args.iDataInitial].state[RIx][pt])
        /\ RGtZero(entry[args.iDataInitial].state[PIx][pt])
        /\ IsFinite(entry[args.iDataUpdate].state[RIx][pt])
    /\ \A pt \in REdgePts : IsFinite(entry[args.iDataInitial].state[WIx][pt])

\* the solution of column <<i, j>> of the element, resp. the density of column
\* <<iA, iB>> of dataset ix, holds numbers: no overflow has occurred
SolutionFinite(i, j) == \A k \in LevelsREdge : IsFinite(m_dD[<<i, j, k>>])

DensityFinite(d, ix, iA, iB) ==
    \A k \in LevelsNode : IsFinite(d[ix].state[RIx][<<iA, iB, k>>])

-----------------------------------------------------------------------------
(* Claim about the interface values StepImplicit reads and never computes *)

\* the interface points of the lowest and of the highest interface
OuterInterfaces == {pt \in REdgePts : pt[3] = 0 \/ pt[3] = nRElements}

\* values for the theta slot on the outer interfaces: large enough to make
\* dgtsv exchange the first two rows, a negative fraction, and values that
\* change from column to column and between bottom and top
OuterThetaValues ==
    {[pt \in OuterInterfaces |-> Rat(100, 1)],
     [pt \in OuterInterfaces |-> Rat(-7, 3)],
     [pt \in OuterInterfaces |-> Rat(2 * (pt[1] - 2 * pt[2] + pt[3]) + 1, 2)]}

\* the datasets d with v in the theta slot of dataset ix on the outer interfaces
WithOuterTheta(d, ix, v) ==
    [d EXCEPT ![ix].stateREdge[PIx] =
        [pt \in REdgePts |-> IF pt \in OuterInterfaces THEN v[pt] ELSE @[pt]]]

\* W, the density and rho theta of dataset ix of d hold numbers: no overflow
\* has occurred in computing them
ResultFinite(d, ix) ==
    \A c \in {WIx, RIx, PIx} : \A pt \in PtsOf(c) : IsFinite(d[ix].state[c][pt])

-----------------------------------------------------------------------------
(* OutputManagerComposite: OpenFile, CloseFile and Output, called by every *)
(* rank of the run in the same order; each rank owns the patch of its      *)
(* number                                                                  *)

\* longest sequence of output operations of a run
MaxCalls == 3

\* eqn.GetTracers() of the runs that write composite output
nCompositeTracers == 2
CompositeTracers == 0 .. (nCompositeTracers - 1)

Operations == {"OpenFile", "Output", "CloseFile"}
Scripts == UNION {[1 .. n -> Operations] : n \in 1 .. MaxCalls}

IsRoot(r) == r = 0

\* the operation rank r is calling, "none" past the end of the script
Op(r) == IF ixCall[r] \in DOMAIN script THEN script[ixCall[r]] ELSE "none"

\* GridPatch::GetTotalNodeCount
GetTotalNodeCount(loc) ==
    IF loc = "REdge" THEN Cardinality(REdgePts) ELSE Cardinality(NodePts)

\* Grid::GetVarsAtLocation
GetVarsAtLocation(loc) == Cardinality({c \in Components : VarLocation(c) = loc})

\* the data a call consolidates: the topography in OpenFile; in Output the
\* state at each location that carries a variable, and the tracers
OpenFile_DataTypes == {<<"Topography", "Node">>}

Output_DataTypes ==
    {<<"State", loc>> : loc \in {l \in {"Node", "REdge"} : GetVarsAtLocation(l) # 0}}
        \cup (IF nCompositeTracers # 0 THEN {<<"Tracers", "Node">>} ELSE {})

\* the message of a patch for one data type, sent within call number call
Message(call, patch, pair) ==
    [call |-> call, patch |-> patch, type |-> pair[1], loc |-> pair[2]]

\* the length of a message of the grid: every component (resp. tracer) at
\* every point of the patch at that location
ExpectedLength(msg) ==
    IF msg.type = "State" THEN nComponents * GetTotalNodeCount(msg.loc)
    ELSE IF msg.type = "Tracers" THEN nCompositeTracers * GetTotalNodeCount("Node")
    ELSE SizeA * SizeB

\* the lengths a received message is tried with: the grid's, or one more
RecvCounts(msg) == {ExpectedLength(msg), ExpectedLength(msg) + 1}

NoFile == [atts |-> {}, puts |-> {}]

Put(var, msg, nRecvCount) ==
    [var |-> var, patch |-> msg.patch, call |-> msg.call,
     type |-> msg.type, loc |-> msg.loc, nRecvCount |-> nRecvCount]

\* the fields of the manager of rank r
Fields(r) ==
    [m_pActiveNcOutput |-> m_pActiveNcOutput[r],
     m_vecComponentVar |-> m_vecComponentVar[r],
     m_vecTracersVar |-> m_vecTracersVar[r],
     m_vecRecvBuffer |-> m_vecRecvBuffer[r],
     m_fIsFileOpen |-> m_fIsFileOpen[r],
     m_ixOutputTime |-> m_ixOutputTime[r],
     nFiles |-> Len(files),
     sent |-> {m \in inflight : m.patch = r}]

\* rank r enters the call at the head of its script
Enters(r, op) ==
    /\ rpc[r] = "idle"
    /\ Op(r) = op
    /\ atEntry' = [atEntry EXCEPT ![r] = Fields(r)]

\* rank r leaves its call, by return ("ok") or with an exception
Leaves(r, how) ==
    /\ rpc' = [rpc EXCEPT ![r] = "idle"]
    /\ outcome' = [outcome EXCEPT ![r] = Append(@, how)]
    /\ ixCall' = [ixCall EXCEPT ![r] = @ + 1]

\* the variables created by the loops of OpenFile
ComponentVars == [c \in 1 .. nComponents |-> <<"state", c - 1, VarLocation(c - 1)>>]
TracerVars == [c \in 1 .. nCompositeTracers |-> <<"tracer", c - 1, "Node">>]
\* the state of the dynamics, which no output operation touches
dynamics == <<m_nHyperviscosityOrder, m_dNuScalar, m_dNuDiv, m_dNuVort,
              fFilterTracers, dElementAreaNode, data, pc, args, exception,
              calls, entry, fPrognosticContravariantMomenta, fGridIsGLL,
              nEqSet, fCartXZ, dataRayleighStrengthNode,
              dataRayleighStrengthREdge, scratch, nActivePatches>>

\* OpenFile up to the consolidation.  The root initializes its receive
\* buffer, refuses a second file, and otherwise creates the file with one
\* variable per component and per tracer; the other ranks do nothing here.
OpenFile_Begin(r) ==
    /\ Enters(r, "OpenFile")
    /\ IF IsRoot(r)
       THEN /\ m_vecRecvBuffer' = [m_vecRecvBuffer EXCEPT ![r] = TRUE]
            /\ IF m_pActiveNcOutput[r] # 0
               THEN /\ Leaves(r, "NetCDF file already open")
                    /\ UNCHANGED <<m_pActiveNcOutput, m_vecComponentVar,
                                   m_vecTracersVar, files>>
               ELSE /\ files' = Append(files, NoFile)
                    /\ m_pActiveNcOutput' =
                           [m_pActiveNcOutput EXCEPT ![r] = Len(files) + 1]
                    /\ m_vecComponentVar' =
                           [m_vecComponentVar EXCEPT ![r] = @ \o ComponentVars]
                    /\ m_vecTracersVar' =
                           [m_vecTracersVar EXCEPT ![r] = @ \o TracerVars]
                    /\ rpc' = [rpc EXCEPT ![r] = "send"]
                    /\ UNCHANGED <<outcome, ixCall>>
       ELSE /\ rpc' = [rpc EXCEPT ![r] = "send"]
            /\ UNCHANGED <<m_vecRecvBuffer, m_pActiveNcOutput, m_vecComponentVar,
                           m_vecTracersVar, files, outcome, ixCall>>
    /\ UNCHANGED <<m_fIsFileOpen, m_ixOutputTime, script, barrier, inflight,
                   status, dynamics>>

\* mutant: the lists of file variables survive the close
Cleared_Kept(vec) == vec

\* std::vector::clear
Cleared(vec) == <<>>

\* CloseFile; the caller then records that no file is open
CloseFile_Call(r) ==
    /\ Enters(r, "CloseFile")
    /\ IF m_pActiveNcOutput[r] # 0
       THEN /\ m_pActiveNcOutput' = [m_pActiveNcOutput EXCEPT ![r] = 0]
            /\ m_vecComponentVar' = [m_vecComponentVar EXCEPT ![r] = Cleared(@)]
            /\ m_vecTracersVar' = [m_vecTracersVar EXCEPT ![r] = Cleared(@)]
            /\ m_vecRecvBuffer' = [m_vecRecvBuffer EXCEPT ![r] = FALSE]
       ELSE UNCHANGED <<m_pActiveNcOutput, m_vecComponentVar, m_vecTracersVar,
                        m_vecRecvBuffer>>
    /\ Leaves(r, "ok")
    /\ m_fIsFileOpen' = [m_fIsFileOpen EXCEPT ![r] = FALSE]
    /\ UNCHANGED <<m_ixOutputTime, script, barrier, inflight, status, files,
                   dynamics>>

\* mutant: a second output to the same file is let through
Output_Check_AnyTime(fIsFileOpen, ixOutputTime) ==
    IF ~fIsFileOpen THEN "No file available for output" ELSE "none"

\* the two tests at the head of Output
Output_Check(fIsFileOpen, ixOutputTime) ==
    IF ~fIsFileOpen THEN "No file available for output"
    ELSE IF ixOutputTime # 0 THEN "Only one Composite output allowed per file"
    ELSE "none"

\* Output up to the consolidation: the two tests, then the root adds the
\* attribute current_time to its file
Output_Begin(r) ==
    /\ Enters(r, "Output")
    /\ LET error == Output_Check(m_fIsFileOpen[r], m_ixOutputTime[r]) IN
        IF error # "none"
        THEN /\ Leaves(r, error)
             /\ UNCHANGED files
        ELSE /\ rpc' = [rpc EXCEPT ![r] = "send"]
             /\ files' = IF IsRoot(r) /\ m_pActiveNcOutput[r] # 0
                         THEN [files EXCEPT ![m_pActiveNcOutput[r]].atts =
                                   @ \cup {<<"current_time", ixCall[r]>>}]
                         ELSE files
             /\ UNCHANGED <<outcome, ixCall>>
    /\ UNCHANGED <<m_pActiveNcOutput, m_vecComponentVar, m_vecTracersVar,
                   m_vecRecvBuffer, m_fIsFileOpen, m_ixOutputTime, script,
                   barrier, inflight, status, dynamics>>

\* vecDataTypes of the running call of rank r
DataTypes(r) == IF Op(r) = "OpenFile" THEN OpenFile_DataTypes ELSE Output_DataTypes

\* rank r calls MPI_Barrier
EntersBarrier(r) ==
    /\ rpc' = [rpc EXCEPT ![r] = "barrier"]
    /\ barrier' = [barrier EXCEPT ![r] = @ + 1]

\* Grid::ConsolidateDataToRoot: every rank sends its patch's data of each
\* type to the root; the root's status expects one message per patch and
\* type.  A rank other than the root skips the receive loop and goes to the
\* barrier.
ConsolidateDataToRoot(r) ==
    /\ rpc[r] = "send"
    /\ inflight' = inflight \cup {Message(ixCall[r], r, pair) : pair \in DataTypes(r)}
    /\ IF IsRoot(r)
       THEN /\ status' = {Message(ixCall[r], p, pair) : p \in Ranks, pair \in DataTypes(r)}
            /\ rpc' = [rpc EXCEPT ![r] = "receive"]
            /\ UNCHANGED barrier
       ELSE /\ EntersBarrier(r)
            /\ UNCHANGED status
    /\ UNCHANGED <<m_pActiveNcOutput, m_vecComponentVar, m_vecTracersVar,
                   m_vecRecvBuffer, m_fIsFileOpen, m_ixOutputTime, script,
                   ixCall, outcome, atEntry, files, dynamics>>

\* the root has one more message: it goes round the loop again, or to the
\* barrier when the status reports done
Received(r, msg) ==
    /\ inflight' = inflight \ {msg}
    /\ status' = status \ {msg}
    /\ IF status \ {msg} = {}
       THEN EntersBarrier(r)
       ELSE UNCHANGED <<rpc, barrier>>
    /\ UNCHANGED <<outcome, ixCall>>

\* one round of the receive loop of OpenFile: the topography of a patch is
\* written to the variable ZS
OpenFile_Receive(r) ==
    /\ IsRoot(r)
    /\ rpc[r] = "receive"
    /\ Op(r) = "OpenFile"
    /\ \E msg \in inflight \cap status :
        /\ files' = [files EXCEPT ![m_pActiveNcOutput[r]].puts =
                         @ \cup {Put(<<"ZS", 0, "Node">>, msg, ExpectedLength(msg))}]
        /\ Received(r, msg)
    /\ UNCHANGED <<m_pActiveNcOutput, m_vecComponentVar, m_vecTracersVar,
                   m_vecRecvBuffer, m_fIsFileOpen, m_ixOutputTime, script,
                   atEntry, dynamics>>

\* the length a message of this kind must divide by
LengthUnit(msg) ==
    IF msg.type = "Tracers" THEN nCompositeTracers
    ELSE IF msg.loc = "Node" THEN nRElements
    ELSE nRElements + 1

\* the puts of one message: the state variables at the message's location,
\* or every tracer variable
PutsOf(compVars, tracerVars, msg, nRecvCount) ==
    IF msg.type = "State"
    THEN {Put(compVars[c], msg, nRecvCount) :
            c \in {i \in DOMAIN compVars : i <= nComponents /\ VarLocation(i - 1) = msg.loc}}
    ELSE {Put(tracerVars[c], msg, nRecvCount) :
            c \in {i \in DOMAIN tracerVars : i <= nCompositeTracers}}

\* mutant: the values are written before the length is tested
Output_Received_WriteFirst(file, compVars, tracerVars, msg, nRecvCount) ==
    [file |-> [file EXCEPT !.puts = @ \cup PutsOf(compVars, tracerVars, msg, nRecvCount)],
     error |-> IF nRecvCount % LengthUnit(msg) # 0
               THEN "Invalid message length" ELSE "none"]

\* the body of the receive loop of Output for one message
Output_Received(file, compVars, tracerVars, msg, nRecvCount) ==
    IF nRecvCount % LengthUnit(msg) # 0
    THEN [file |-> file, error |-> "Invalid message length"]
    ELSE [file |-> [file EXCEPT !.puts =
                        @ \cup PutsOf(compVars, tracerVars, msg, nRecvCount)],
          error |-> "none"]

\* one round of the receive loop of Output
Output_Receive(r) ==
    /\ IsRoot(r)
    /\ rpc[r] = "receive"
    /\ Op(r) = "Output"
    /\ \E msg \in inflight \cap status : \E nRecvCount \in RecvCounts(msg) :
        LET res == Output_Received(files[m_pActiveNcOutput[r]], m_vecComponentVar[r],
                                   m_vecTracersVar[r], msg, nRecvCount) IN
        /\ files' = [files EXCEPT ![m_pActiveNcOutput[r]] = res.file]
        /\ IF res.error # "none"
           THEN /\ Leaves(r, res.error)
                /\ inflight' = inflight \ {msg}
                /\ status' = {}
                /\ UNCHANGED barrier
           ELSE Received(r, msg)
    /\ UNCHANGED <<m_pActiveNcOutput, m_vecComponentVar, m_vecTracersVar,
                   m_vecRecvBuffer, m_fIsFileOpen, m_ixOutputTime, script,
                   atEntry, dynamics>>

\* MPI_Barrier lets rank r go once every rank has entered as many barriers
\* as r has; the call returns, and the caller does its bookkeeping: a file
\* is open and has no output after OpenFile, one more output after Output
Barrier_Return(r) ==
    /\ rpc[r] = "barrier"
    /\ \A s \in Ranks : barrier[s] >= barrier[r]
    /\ Leaves(r, "ok")
    /\ m_fIsFileOpen' = IF Op(r) = "OpenFile"
                        THEN [m_fIsFileOpen EXCEPT ![r] = TRUE] ELSE m_fIsFileOpen
    /\ m_ixOutputTime' = IF Op(r) = "OpenFile"
                         THEN [m_ixOutputTime EXCEPT ![r] = 0]
                         ELSE [m_ixOutputTime EXCEPT ![r] = @ + 1]
    /\ UNCHANGED <<m_pActiveNcOutput, m_vecComponentVar, m_vecTracersVar,
                   m_vecRecvBuffer, script, atEntry, barrier, inflight, status,
                   files, dynamics>>

\* a run of the output manager: the dynamics stays as constructed, and every
\* rank is about to make the same sequence of calls
InitOutput ==
    /\ m_nHyperviscosityOrder = 0
    /\ m_dNuScalar = Zero
    /\ m_dNuDiv = Zero
    /\ m_dNuVort = Zero
    /\ fFilterTracers = TRUE
    /\ dElementAreaNode = UniformArea
    /\ StandardSetup
    /\ data = InitialData
    /\ pc = "idle"
    /\ args = NoArgs
    /\ exception = "none"
    /\ calls = <<>>
    /\ entry = data
    /\ m_pActiveNcOutput = [r \in Ranks |-> 0]
    /\ m_vecComponentVar = [r \in Ranks |-> <<>>]
    /\ m_vecTracersVar = [r \in Ranks |-> <<>>]
    /\ m_vecRecvBuffer = [r \in Ranks |-> FALSE]
    /\ m_fIsFileOpen = [r \in Ranks |-> FALSE]
    /\ m_ixOutputTime = [r \in Ranks |-> 0]
    /\ script \in Scripts
    /\ ixCall = [r \in Ranks |-> 1]
    /\ rpc = [r \in Ranks |-> "idle"]
    /\ outcome = [r \in Ranks |-> <<>>]
    /\ atEntry = [r \in Ranks |-> <<>>]
    /\ barrier = [r \in Ranks |-> 0]
    /\ inflight = {}
    /\ status = {}
    /\ files = <<>>

RankNext(r) ==
    \/ OpenFile_Begin(r)
    \/ CloseFile_Call(r)
    \/ Output_Begin(r)
    \/ ConsolidateDataToRoot(r)
    \/ OpenFile_Receive(r)
    \/ Output_Receive(r)
    \/ Barrier_Return(r)

NextOutput == \E r \in Ranks : RankNext(r)

SpecOutput == InitOutput /\ [][NextOutput]_vars

\* every rank keeps running while it has a step to take
SpecOutputFair == SpecOutput /\ \A r \in Ranks : WF_vars(RankNext(r))

-----------------------------------------------------------------------------
(* Claims about OutputManagerComposite *)

\* how call number i of rank r ended, "running" while it has not
CallOutcome(r, i) == IF i \in DOMAIN outcome[r] THEN outcome[r][i] ELSE "running"

\* the values a step of the root's receive loop writes to its file
NewPuts ==
    IF m_pActiveNcOutput[0] = 0 THEN {}
    ELSE files'[m_pActiveNcOutput[0]].puts \ files[m_pActiveNcOutput[0]].puts

\* the root takes a message in the receive loop of Output
OutputReceiveStep ==
    /\ rpc[0] = "receive"
    /\ Op(0) = "Output"
    /\ inflight' # inflight
    /\ inflight' \subseteq inflight

\* no file holds a value of a state or tracer message of invalid length
NoInvalidPut ==
    \A f \in DOMAIN files : \A p \in files[f].puts :
        p.type \in {"State", "Tracers"} => p.nRecvCount % LengthUnit(p) = 0

\* C24: on the root, Output raises "Invalid message length" for a state
\* message whose length is not a multiple of nRElements (nodes) or of
\* nRElements + 1 (interfaces) and for a tracer message whose length is not
\* a multiple of the tracer count, and it writes no value of that message:
\* every value in a file comes from a message of valid length, and a message
\* taken by the receive loop is either written or ends the call with that
\* error, never both.
C24_InvalidLengthRaisedBeforeWrite ==
    /\ []NoInvalidPut
    /\ [][OutputReceiveStep =>
            \/ /\ NewPuts # {}
               /\ outcome' = outcome
            \/ /\ NewPuts = {}
               /\ outcome'[0] = Append(outcome[0], "Invalid message length")
               /\ files' = files]_vars

\* the root has ended an Output with the error after it wrote the values of
\* an earlier message of the same call
C24_Witness ==
    \E i \in DOMAIN outcome[0] :
        /\ outcome[0][i] = "Invalid message length"
        /\ \E f \in DOMAIN files : \E p \in files[f].puts : p.call = i

\* call number i of rank r was an op that returned
Succeeded(r, i, op) ==
    /\ i \in DOMAIN outcome[r]
    /\ script[i] = op
    /\ outcome[r][i] = "ok"

\* between two Outputs of rank r that returned, an OpenFile of r returned
OneOutputPerFile ==
    \A r \in Ranks : \A i \in DOMAIN outcome[r], j \in DOMAIN outcome[r] :
        (i < j /\ Succeeded(r, i, "Output") /\ Succeeded(r, j, "Output"))
            => \E k \in (i + 1) .. (j - 1) : Succeeded(r, k, "OpenFile")

\* rank r is past the two tests of Output
InOutput(r) == Op(r) = "Output" /\ rpc[r] # "idle"

\* rank r enters Output in this step
OutputEntered(r) ==
    /\ rpc[r] = "idle"
    /\ Op(r) = "Output"
    /\ (rpc'[r] # "idle" \/ ixCall'[r] # ixCall[r])

\* the error Output owes to the state it is entered in
OutputRefusal(r) ==
    IF ~m_fIsFileOpen[r] THEN "No file available for output"
    ELSE "Only one Composite output allowed per file"

CallEntered(r, op) ==
    /\ rpc[r] = "idle"
    /\ Op(r) = op
    /\ (rpc'[r] # "idle" \/ ixCall'[r] # ixCall[r])

\* the manager of rank r holds no file, no file variable and no buffer
NothingOpen(r) ==
    /\ m_pActiveNcOutput[r] = 0
    /\ m_vecComponentVar[r] = <<>>
    /\ m_vecTracersVar[r] = <<>>
    /\ ~m_vecRecvBuffer[r]

\* with a file open the lists hold the variables of that file and no other:
\* one per component and one per tracer
ListsMatchFile ==
    \A r \in Ranks : m_pActiveNcOutput[r] # 0 =>
        /\ Len(m_vecComponentVar[r]) = nComponents
        /\ Len(m_vecTracersVar[r]) = nCompositeTracers
        /\ m_vecComponentVar[r] = ComponentVars
        /\ m_vecTracersVar[r] = TracerVars

InCollective(r) == rpc[r] # "idle"

\* rank r is in the closing barrier of a call that rank s has left with an
\* exception, so without entering the barrier
Stranded(r, s) ==
    /\ rpc[r] = "barrier"
    /\ ixCall[r] \in DOMAIN outcome[s]
    /\ outcome[s][ixCall[r]] # "ok"

\* the root raised inside a collective call: a second OpenFile, or a message
\* of invalid length
RootRaised ==
    \E i \in DOMAIN outcome[0] :
        outcome[0][i] \in {"NetCDF file already open", "Invalid message length"}

\* every rank has made all its calls
AllDone == \A r \in Ranks : ixCall[r] > Len(script)

\* as long as the root raises nothing inside a collective call, every rank
\* gets through the whole script
CompletionWithoutRootError == [](~RootRaised) => <>AllDone

\* C30: when all ranks call OpenFile or Output, every rank that is inside the
\* operation eventually leaves it, and no rank waits in the closing barrier
\* of a call that another rank has left without entering the barrier.
C30_CollectiveCompletion ==
    /\ \A r \in Ranks : InCollective(r) ~> ~InCollective(r)
    /\ [](\A r \in Ranks, s \in Ranks : ~Stranded(r, s))

=============================================================================
